---- MODULE Spec2Model ----
(***************************************************************************)
(* A model of the RSF (repository snapshot format) codec: the reflection   *)
(* driven writer (WriteObject and the Write*Field primitives), the index   *)
(* written at the head of a stream, and the navigational reader            *)
(* (ReadIndex, Read*Field, Discard, AdvanceTo, AdvanceToNextElement).      *)
(*                                                                         *)
(* Bytes are naturals below 256, byte strings and Go strings are sequences *)
(* of bytes, a field name is a Go string, a path is a sequence of names.   *)
(***************************************************************************)
EXTENDS Integers, Sequences, FiniteSets, TLC

-----------------------------------------------------------------------------
(* Program constants *)

sizeFieldLen == 4
sizeFloat64 == 8
sizeInt64 == 10

FieldTypeVarStr == 1
FieldTypeFixedStr == 2
FieldTypeBool == 3
FieldTypeArray == 4
FieldTypeFloat == 6
FieldTypeInt64 == 7

\* reflect.Kind values the writer records in the index
KindInt64 == 6
KindSlice == 23
KindString == 24
KindStruct == 25

Version1 == 1
Version2 == 2
IndexVersion2 == <<0, 8, 50>>

Top == <<>>

ErrNone == ""
ErrNoSuchField == "ErrNoSuchField"
ErrInvalidIndexFieldType == "ErrInvalidIndexFieldType"
ErrSizeMismatch == "size does not match expected size"
ErrUnknownFieldType == "unknown field type"
ErrUnexpectedIndexFieldType == "unexpected index field type"
ErrEOF == "EOF"
ErrUnexpectedEOF == "unexpected EOF"
ErrNegativeCount == "bufio: negative count"

-----------------------------------------------------------------------------
(* Byte helpers: encoding/binary *)

\* binary.LittleEndian.PutUint32
PutUint32(n) ==
    << n % 256, (n \div 256) % 256, (n \div 65536) % 256, (n \div 16777216) % 256 >>

\* binary.LittleEndian.Uint32
Uint32(bs) == bs[1] + 256 * bs[2] + 65536 * bs[3] + 16777216 * bs[4]

\* A uint64 is kept as its four words of 16 bits, the least significant
\* first, and a float64 as the uint64 of its bit pattern (math.Float64bits
\* and math.Float64frombits change no bit).

\* math.Float64bits of 0
FloatZero == <<0, 0, 0, 0>>
\* math.Float64bits of 92.6889694819562 (0x40572C1813743C6A): each of the
\* eight bytes is below 0x80, so that a size or a varint read from them by
\* a consumer that reads where it should not stays below 2^31
FloatPlain == <<15466, 4980, 11288, 16471>>

\* binary.LittleEndian.PutUint64: byte(v), byte(v >> 8), ... byte(v >> 56)
PutUint64(v) ==
    [k \in 1..8 |-> IF k % 2 = 1 THEN v[(k + 1) \div 2] % 256
                                  ELSE v[k \div 2] \div 256]

\* binary.LittleEndian.Uint64: uint64(b[0]) | uint64(b[1])<<8 | ... |
\* uint64(b[7])<<56
Uint64(bs) == [k \in 1..4 |-> bs[2 * k - 1] + 256 * bs[2 * k]]

RECURSIVE Zeros(_)
Zeros(n) == IF n <= 0 THEN <<>> ELSE <<0>> \o Zeros(n - 1)

RECURSIVE PutUvarint(_)
\* binary.PutUvarint: seven bits per byte, least significant group first,
\* the high bit set on every byte but the last
PutUvarint(ux) ==
    IF ux >= 128 THEN <<(ux % 128) + 128>> \o PutUvarint(ux \div 128)
    ELSE <<ux>>

\* binary.PutVarint: zig-zag, then PutUvarint
PutVarint(x) == PutUvarint(IF x < 0 THEN (-2 * x) - 1 ELSE 2 * x)

RECURSIVE UvarintFrom(_, _, _, _)
\* binary.Uvarint: the loop over the buffer; x is the value so far and
\* mul the weight 2^s of the next group.  [n |-> bytes read (0: buffer too
\* small, negative: overflow), ux |-> value]
UvarintFrom(bs, i, x, mul) ==
    IF i > Len(bs) THEN [n |-> 0, ux |-> 0]
    ELSE IF i - 1 = sizeInt64 THEN [n |-> -i, ux |-> 0]
    ELSE IF bs[i] < 128
         THEN IF i - 1 = sizeInt64 - 1 /\ bs[i] > 1
              THEN [n |-> -i, ux |-> 0]
              ELSE [n |-> i, ux |-> x + bs[i] * mul]
         ELSE UvarintFrom(bs, i + 1, x + (bs[i] % 128) * mul, mul * 128)

\* binary.Varint: Uvarint, then undo the zig-zag
Varint(bs) ==
    LET u == UvarintFrom(bs, 1, 0, 1)
    IN  IF u.ux % 2 = 1 THEN -((u.ux \div 2) + 1) ELSE u.ux \div 2

-----------------------------------------------------------------------------
(* Writer primitives.  Each Write*Field(pos, ..., w) of the code appends   *)
(* to the buffer w and returns pos + bytes written; every internal caller  *)
(* passes pos = 0, so the operators return [err, sz, buf]: the error, the  *)
(* returned count and the bytes appended.                                  *)

WOk(sz, bs) == [err |-> ErrNone, sz |-> sz, buf |-> bs]
WErr(e) == [err |-> e, sz |-> 0, buf |-> <<>>]

WriteSizeField(val) == WOk(sizeFieldLen, PutUint32(val))

WriteInt64Field(val) ==
    LET v == PutVarint(val)
    IN  WOk(sizeInt64, v \o Zeros(sizeInt64 - Len(v)))

\* WriteFloatField: val is the float by its bits, math.Float64bits(val)
WriteFloatField(val) == WOk(sizeFloat64, PutUint64(val))

\* WriteFixedStringField with a fault: the size is not compared
WriteFixedStringFieldUnchecked(sz, val) == WOk(Len(val), val)

WriteFixedStringField(sz, val) ==
    IF sz # Len(val) THEN WErr(ErrSizeMismatch) ELSE WOk(sz, val)

WriteStringField(val) ==
    WOk(sizeFieldLen + Len(val), PutUint32(Len(val)) \o val)

WriteBoolField(val) == WOk(1, IF val THEN <<1>> ELSE <<0>>)

-----------------------------------------------------------------------------
(* Go types and values as the writer sees them through reflection.         *)
(*   a type is [kind |-> "string" | "bool" | "int" | "float64"],           *)
(*   [kind |-> "slice", elem |-> type] or                                  *)
(*   [kind |-> "struct", fields |-> sequence of [raw, type]];              *)
(*   raw is the field's rsf struct tag, already split at its commas:       *)
(*   [ignore, name, skip, fixed, index];                                   *)
(*   a value is a byte string, a boolean, an integer, the bit pattern of   *)
(*   a float, a sequence of elements or a sequence of field values.        *)

TString == [kind |-> "string"]
TBool == [kind |-> "bool"]
TInt == [kind |-> "int"]
TFloat == [kind |-> "float64"]
TSlice(el) == [kind |-> "slice", elem |-> el]
TStruct(fs) == [kind |-> "struct", fields |-> fs]

\* `rsf:"name"` with the optional parameters skip, fixed:N and index:key;
\* empty tells a field without rsf tag (Tag.Get gives "")
Raw(name, skip, fixed, index) ==
    [ignore |-> FALSE, empty |-> FALSE, name |-> name, skip |-> skip,
     fixed |-> fixed, index |-> index]
\* `rsf:"-"`
RawIgnore ==
    [ignore |-> TRUE, empty |-> FALSE, name |-> <<>>, skip |-> FALSE, fixed |-> 0,
     index |-> <<>>]
\* a field that carries no rsf tag
RawEmpty ==
    [ignore |-> FALSE, empty |-> TRUE, name |-> <<>>, skip |-> FALSE, fixed |-> 0,
     index |-> <<>>]
Fld(raw, ty) == [raw |-> raw, type |-> ty]

\* the interface value held in tag.indexVal: nil, a string or an int64
NilVal == [kind |-> "nil", s |-> <<>>, n |-> 0]
StrVal(s) == [kind |-> "string", s |-> s, n |-> 0]
IntVal(n) == [kind |-> "int64", s |-> <<>>, n |-> n]

\* &tag{}
EmptyTag ==
    [name |-> <<>>, fixed |-> 0, index |-> <<>>, indexSz |-> 0, indexType |-> 0,
     indexVal |-> NilVal]

\* getTagInfo with a fault: the skip part of the tag is not honoured
getTagInfoSkipUnheeded(v, index, tParent, fieldVal) ==
    LET raw == v.fields[index].raw
        kind == v.fields[index].type.kind
        t == [EmptyTag EXCEPT !.name = raw.name, !.index = raw.index,
                              !.fixed = raw.fixed]
        tp == IF tParent.index # t.name THEN tParent
              ELSE IF kind = "string"
                   THEN [tParent EXCEPT !.indexVal = fieldVal, !.indexSz = t.fixed,
                                        !.indexType = KindString]
              ELSE IF kind = "int"
                   THEN [tParent EXCEPT !.indexVal = fieldVal, !.indexSz = sizeInt64,
                                        !.indexType = KindInt64]
              ELSE [tParent EXCEPT !.indexVal = fieldVal]
    IN  IF raw.ignore
        THEN [skip |-> TRUE, t |-> EmptyTag, tParent |-> tParent]
        ELSE IF raw.empty
        THEN [skip |-> FALSE, t |-> EmptyTag, tParent |-> tParent]
        ELSE [skip |-> FALSE, t |-> t, tParent |-> tp]

\* getTagInfo: fills the field's tag t from its struct tag and, when the
\* field is the one the parent array is indexed by, records its value, size
\* and kind in the parent's tag; a field without tag leaves both tags as
\* they are
getTagInfo(v, index, tParent, fieldVal) ==
    LET raw == v.fields[index].raw
        kind == v.fields[index].type.kind
        t == [EmptyTag EXCEPT !.name = raw.name, !.index = raw.index,
                              !.fixed = raw.fixed]
        tp == IF tParent.index # t.name THEN tParent
              ELSE IF kind = "string"
                   THEN [tParent EXCEPT !.indexVal = fieldVal, !.indexSz = t.fixed,
                                        !.indexType = KindString]
              ELSE IF kind = "int"
                   THEN [tParent EXCEPT !.indexVal = fieldVal, !.indexSz = sizeInt64,
                                        !.indexType = KindInt64]
              ELSE [tParent EXCEPT !.indexVal = fieldVal]
    IN  IF raw.ignore
        THEN [skip |-> TRUE, t |-> EmptyTag, tParent |-> tParent]
        ELSE IF raw.empty
        THEN [skip |-> FALSE, t |-> EmptyTag, tParent |-> tParent]
        ELSE [skip |-> raw.skip, t |-> t, tParent |-> tp]

-----------------------------------------------------------------------------
(* The body writer.  writeObject and its helpers return [err, sz, buf, t]: *)
(* the error, the size they report, the bytes they append to the buffer    *)
(* and the tag they were handed, as they leave it.                         *)

WRes(r, t) == [err |-> r.err, sz |-> r.sz, buf |-> r.buf, t |-> t]
WFail(e, t) == [err |-> e, sz |-> 0, buf |-> <<>>, t |-> t]

\* writeString with a fault: the fixed size of the tag is not honoured
writeStringAlwaysSized(s, t) == WriteStringField(s)

writeString(s, t) ==
    IF t.fixed > 0 THEN WriteFixedStringField(t.fixed, s) ELSE WriteStringField(s)

\* the value writeStruct hands to getTagInfo for indexing an array
FieldVal(ty, val) ==
    IF ty.kind = "string" THEN StrVal(val)
    ELSE IF ty.kind = "int" THEN IntVal(val)
    ELSE NilVal

\* the index entry with a fault: the size counts the key with the element
IndexEntryBytesRunningSize(t, elemLen) ==
    LET key == IF t.indexVal.kind = "string"
               THEN WriteFixedStringField(t.indexSz, t.indexVal.s)
               ELSE IF t.indexVal.kind = "int64"
               THEN WriteInt64Field(t.indexVal.n)
               ELSE WErr(ErrInvalidIndexFieldType)
        size == WriteSizeField(elemLen + key.sz)
    IN  IF key.err # ErrNone THEN key
        ELSE WOk(key.sz + size.sz, key.buf \o size.buf)

\* the index entry with a fault: a key that is neither a string nor an
\* integer is left out
IndexEntryBytesAnyKey(t, elemLen) ==
    LET key == IF t.indexVal.kind = "string"
               THEN WriteFixedStringField(t.indexSz, t.indexVal.s)
               ELSE IF t.indexVal.kind = "int64"
               THEN WriteInt64Field(t.indexVal.n)
               ELSE WOk(0, <<>>)
        size == WriteSizeField(elemLen)
    IN  IF key.err # ErrNone THEN key
        ELSE WOk(key.sz + size.sz, key.buf \o size.buf)

\* writeArray, the index entry of one element: the key, then the element size
IndexEntryBytes(t, elemLen) ==
    LET key == IF t.indexVal.kind = "string"
               THEN WriteFixedStringField(t.indexSz, t.indexVal.s)
               ELSE IF t.indexVal.kind = "int64"
               THEN WriteInt64Field(t.indexVal.n)
               ELSE WErr(ErrInvalidIndexFieldType)
        size == WriteSizeField(elemLen)
    IN  IF key.err # ErrNone THEN key
        ELSE WOk(key.sz + size.sz, key.buf \o size.buf)

\* the array with a fault: the total size leaves out the length field
ArrayBytesShortTotal(t, n, totalSz, snapIndexBuf, snapBuf) ==
    LET total == totalSz + sizeFieldLen
    IN  [err |-> ErrNone, sz |-> total, t |-> t,
         buf |-> WriteSizeField(total).buf \o WriteSizeField(n).buf
                 \o (IF t.index # <<>> THEN snapIndexBuf ELSE <<>>) \o snapBuf]

\* writeArray, after the loop: size, length, index, elements
ArrayBytes(t, n, totalSz, snapIndexBuf, snapBuf) ==
    LET total == totalSz + sizeFieldLen + sizeFieldLen
    IN  [err |-> ErrNone, sz |-> total, t |-> t,
         buf |-> WriteSizeField(total).buf \o WriteSizeField(n).buf
                 \o (IF t.index # <<>> THEN snapIndexBuf ELSE <<>>) \o snapBuf]

RECURSIVE writeObject(_, _, _)
RECURSIVE writeStructFrom(_, _, _, _, _, _)
RECURSIVE writeArrayFrom(_, _, _, _, _, _, _)

writeStructFrom(ty, v, tParent, i, totalSz, buf) ==
    IF i > Len(ty.fields)
    THEN [err |-> ErrNone, sz |-> totalSz, buf |-> buf, t |-> tParent]
    ELSE LET g == getTagInfo(ty, i, tParent, FieldVal(ty.fields[i].type, v[i]))
         IN  IF g.skip
             THEN writeStructFrom(ty, v, g.tParent, i + 1, totalSz, buf)
             ELSE LET r == writeObject(ty.fields[i].type, v[i], g.t)
                  IN  IF r.err # ErrNone THEN WFail(r.err, g.tParent)
                      ELSE writeStructFrom(ty, v, g.tParent, i + 1,
                                           totalSz + r.sz, buf \o r.buf)

writeStruct(ty, v, tParent) == writeStructFrom(ty, v, tParent, 1, 0, <<>>)

writeArrayFrom(ty, v, t, i, totalSz, snapIndexBuf, snapBuf) ==
    IF i > Len(v)
    THEN ArrayBytes(t, Len(v), totalSz, snapIndexBuf, snapBuf)
    ELSE LET r == writeObject(ty.elem, v[i], t)
             e == IndexEntryBytes(r.t, Len(r.buf))
         IN  IF r.err # ErrNone THEN WFail(r.err, r.t)
             ELSE IF t.index = <<>>
             THEN writeArrayFrom(ty, v, r.t, i + 1, totalSz + r.sz,
                                 snapIndexBuf, snapBuf \o r.buf)
             ELSE IF e.err # ErrNone THEN WFail(e.err, r.t)
             ELSE writeArrayFrom(ty, v, r.t, i + 1, totalSz + r.sz + e.sz,
                                 snapIndexBuf \o e.buf, snapBuf \o r.buf)

writeArray(ty, v, t) == writeArrayFrom(ty, v, t, 1, 0, <<>>, <<>>)

writeObject(ty, v, t) ==
    CASE ty.kind = "slice" -> writeArray(ty, v, t)
      [] ty.kind = "struct" -> writeStruct(ty, v, t)
      [] ty.kind = "string" -> WRes(writeString(v, t), t)
      [] ty.kind = "bool" -> WRes(WriteBoolField(v), t)
      [] ty.kind = "int" -> WRes(WriteInt64Field(v), t)
      [] ty.kind = "float64" -> WRes(WriteFloatField(v), t)
      [] OTHER -> WFail(ErrUnknownFieldType, t)

-----------------------------------------------------------------------------
(* The index writer.  The index is the preorder list of the fields that    *)
(* are not skipped: name, type code, then the extras of the type.          *)

\* reflect.Kind of a type, as recorded for the elements of an array
KindOf(ty) ==
    CASE ty.kind = "struct" -> KindStruct
      [] ty.kind = "string" -> KindString
      [] ty.kind = "slice" -> KindSlice
      [] ty.kind = "int" -> 2
      [] ty.kind = "bool" -> 1
      [] OTHER -> 14

\* an entry without extras: var_string(name), size(type code)
writeIndexFixed(code, t) ==
    LET n == WriteStringField(t.name)
        c == WriteSizeField(code)
    IN  [err |-> ErrNone, sz |-> n.sz + c.sz, buf |-> n.buf \o c.buf, t |-> t]

\* a string field: FIXED_STR with its size when the tag says fixed:N
writeIndexString(t) ==
    IF t.fixed > 0
    THEN LET e == writeIndexFixed(FieldTypeFixedStr, t)
             z == WriteSizeField(t.fixed)
         IN  [e EXCEPT !.sz = e.sz + z.sz, !.buf = e.buf \o z.buf]
    ELSE writeIndexFixed(FieldTypeVarStr, t)

\* the head of an array entry: name, type code, (version 2) indexed, the
\* index key's kind and size, the element kind; then the subfield count
IndexArrayHead(version, ty, t, count) ==
    LET e == writeIndexFixed(FieldTypeArray, t)
        meta == IF version < Version2 THEN <<>>
                ELSE WriteBoolField(t.index # <<>>).buf
                     \o (IF t.index # <<>>
                         THEN WriteSizeField(t.indexType).buf
                              \o WriteSizeField(t.indexSz).buf
                         ELSE <<>>)
                     \o WriteSizeField(KindOf(ty.elem)).buf
    IN  e.buf \o meta \o WriteSizeField(count).buf

\* the number of entries a struct contributes at its own level
RECURSIVE SubfieldCount(_, _)
SubfieldCount(ty, i) ==
    IF i > Len(ty.fields) THEN 0
    ELSE (IF ty.fields[i].raw.ignore \/ ty.fields[i].raw.skip THEN 0 ELSE 1)
         + SubfieldCount(ty, i + 1)

RECURSIVE writeIndexObject(_, _, _)
RECURSIVE writeIndexStructFrom(_, _, _, _, _, _)

\* writeIndexStruct: the fields in declaration order, skipped fields left out
writeIndexStructFrom(version, ty, tParent, i, totalSz, buf) ==
    IF i > Len(ty.fields)
    THEN [err |-> ErrNone, sz |-> totalSz, buf |-> buf, t |-> tParent]
    ELSE LET g == getTagInfo(ty, i, tParent, StrVal(<<>>))
         IN  IF g.skip
             THEN writeIndexStructFrom(version, ty, g.tParent, i + 1, totalSz, buf)
             ELSE LET r == writeIndexObject(version, ty.fields[i].type, g.t)
                  IN  IF r.err # ErrNone THEN WFail(r.err, g.tParent)
                      ELSE writeIndexStructFrom(version, ty, g.tParent, i + 1,
                                                totalSz + r.sz, buf \o r.buf)

writeIndexStruct(version, ty, tParent) ==
    writeIndexStructFrom(version, ty, tParent, 1, 0, <<>>)

writeIndexArray(version, ty, t) ==
    LET sub == IF ty.elem.kind = "struct"
               THEN writeIndexStruct(version, ty.elem, t)
               ELSE [err |-> ErrNone, sz |-> 0, buf |-> <<>>, t |-> t]
        count == IF ty.elem.kind = "struct" THEN SubfieldCount(ty.elem, 1) ELSE 0
        head == IndexArrayHead(version, ty, sub.t, count)
    IN  IF sub.err # ErrNone THEN WFail(sub.err, sub.t)
        ELSE [err |-> ErrNone, sz |-> Len(head) + sub.sz, buf |-> head \o sub.buf,
              t |-> sub.t]

writeIndexObject(version, ty, t) ==
    CASE ty.kind = "slice" -> writeIndexArray(version, ty, t)
      [] ty.kind = "struct" -> writeIndexStruct(version, ty, t)
      [] ty.kind = "string" -> writeIndexString(t)
      [] ty.kind = "bool" -> writeIndexFixed(FieldTypeBool, t)
      [] ty.kind = "int" -> writeIndexFixed(FieldTypeInt64, t)
      [] ty.kind = "float64" -> writeIndexFixed(FieldTypeFloat, t)
      [] OTHER -> WFail(ErrUnknownFieldType, t)

-----------------------------------------------------------------------------
(* WriteObject *)

\* WriteObject with a fault: the count returned leaves out the size field
\* of the index
WriteObjectOutSizeFieldUncounted(wpos, withIndex, magic, ix, body) ==
    LET head == IF withIndex
                THEN magic \o PutUint32(Len(ix.buf) + sizeFieldLen) \o ix.buf
                ELSE <<>>
        headSz == IF withIndex THEN Len(magic) + ix.sz ELSE 0
    IN  IF withIndex /\ ix.err # ErrNone
        THEN [err |-> ix.err, n |-> 0, out |-> magic, pos |-> wpos, fstart |-> 0]
        ELSE IF body.err # ErrNone
        THEN [err |-> body.err, n |-> 0, out |-> head, pos |-> wpos, fstart |-> 0]
        ELSE [err |-> ErrNone, n |-> headSz + body.sz + sizeFieldLen,
              out |-> head \o PutUint32(Len(body.buf) + sizeFieldLen) \o body.buf,
              pos |-> wpos + 1, fstart |-> Len(head)]

\* WriteObject with a fault: the size at the head of the frame is that of
\* the body, without the four bytes of the size itself
WriteObjectOutBodySize(wpos, withIndex, magic, ix, body) ==
    LET head == IF withIndex
                THEN magic \o PutUint32(Len(ix.buf) + sizeFieldLen) \o ix.buf
                ELSE <<>>
        headSz == IF withIndex THEN Len(magic) + ix.sz + sizeFieldLen ELSE 0
    IN  IF withIndex /\ ix.err # ErrNone
        THEN [err |-> ix.err, n |-> 0, out |-> magic, pos |-> wpos, fstart |-> 0]
        ELSE IF body.err # ErrNone
        THEN [err |-> body.err, n |-> 0, out |-> head, pos |-> wpos, fstart |-> 0]
        ELSE [err |-> ErrNone, n |-> headSz + body.sz + sizeFieldLen,
              out |-> head \o PutUint32(Len(body.buf)) \o body.buf,
              pos |-> wpos + 1, fstart |-> Len(head)]

\* WriteObject once the index ix and the body are serialized: [err,
\* n |-> the count returned, out |-> the bytes appended to the sink (also
\* those a failing call wrote before it failed), pos |-> the object counter
\* afterwards, fstart |-> the offset in out of the record frame]
WriteObjectOut(wpos, withIndex, magic, ix, body) ==
    LET head == IF withIndex
                THEN magic \o PutUint32(Len(ix.buf) + sizeFieldLen) \o ix.buf
                ELSE <<>>
        headSz == IF withIndex THEN Len(magic) + ix.sz + sizeFieldLen ELSE 0
    IN  IF withIndex /\ ix.err # ErrNone
        THEN [err |-> ix.err, n |-> 0, out |-> magic, pos |-> wpos, fstart |-> 0]
        ELSE IF body.err # ErrNone
        THEN [err |-> body.err, n |-> 0, out |-> head, pos |-> wpos, fstart |-> 0]
        ELSE [err |-> ErrNone, n |-> headSz + body.sz + sizeFieldLen,
              out |-> head \o PutUint32(Len(body.buf) + sizeFieldLen) \o body.buf,
              pos |-> wpos + 1, fstart |-> Len(head)]

\* WriteObject with a fault: the index goes first whatever the first value
\* is
WriteObjectOpIndexAlways(version, wpos, ty, v) ==
    WriteObjectOut(wpos, wpos = 0,
                   IF wpos = 0 /\ version > 1 THEN IndexVersion2 ELSE <<>>,
                   writeIndexObject(version, ty, EmptyTag),
                   writeObject(ty, v, EmptyTag))

\* WriteObject on a writer of the given version whose object counter is
\* wpos: the index goes first when no object has been written and the value
\* is a struct
WriteObjectOp(version, wpos, ty, v) ==
    WriteObjectOut(wpos, wpos = 0 /\ ty.kind = "struct",
                   IF wpos = 0 /\ ty.kind = "struct" /\ version > 1
                   THEN IndexVersion2 ELSE <<>>,
                   writeIndexObject(version, ty, EmptyTag),
                   writeObject(ty, v, EmptyTag))

-----------------------------------------------------------------------------
(* The reader.  A reader is the record                                     *)
(*   [pos, index, at, indexVersion]   the fields of rsfReader              *)
(*   [off]                            the read offset of the source        *)
(*   [err, s, b, n, f]                what the last call returned: the     *)
(*                                    error and the string, bool, integer  *)
(*                                    or float (by its bits)               *)
(* and every operation takes the reader and the bytes of the source and    *)
(* returns the reader afterwards.                                          *)

\* NewReader() over a source positioned at its start
NewReader ==
    [pos |-> 0, index |-> <<>>, at |-> <<>>, indexVersion |-> 0, off |-> 0,
     err |-> ErrNone, s |-> <<>>, b |-> FALSE, n |-> 0, f |-> FloatZero]

Returns(r, e, s, b, n) ==
    [r EXCEPT !.err = e, !.s = s, !.b = b, !.n = n, !.f = FloatZero]
Fails(r, e) == Returns(r, e, <<>>, FALSE, 0)

Avail(r, stream) == Len(stream) - r.off

\* the error of io.ReadFull when fewer than the wanted bytes are left: EOF
\* when no byte could be read (the offset is at or past the end)
ShortRead(r, stream) == IF Avail(r, stream) <= 0 THEN ErrEOF ELSE ErrUnexpectedEOF

\* the offset of a source read to its end: an offset past the end (after a
\* Seek) stays where it is
SourceEnd(r, stream) == IF r.off > Len(stream) THEN r.off ELSE Len(stream)

\* io.ReadFull of k bytes failing: the source is drained, pos stays
Drained(r, stream) ==
    Fails([r EXCEPT !.off = SourceEnd(r, stream)], ShortRead(r, stream))

Bytes(r, stream, k) == SubSeq(stream, r.off + 1, r.off + k)

\* io.ReadFull of k bytes succeeding: f.pos += i
Consumed(r, k) == [r EXCEPT !.off = r.off + k, !.pos = r.pos + k]

\* Seek with a fault: the cursor is set and the stream stays where it was
SeekCursorOnly(r, stream, pos) ==
    IF pos < 0 THEN Fails([r EXCEPT !.pos = 0], "seek: invalid argument")
    ELSE Fails([r EXCEPT !.pos = pos], ErrNone)

Seek(r, stream, pos) ==
    IF pos < 0 THEN Fails([r EXCEPT !.pos = 0], "seek: invalid argument")
    ELSE Fails([r EXCEPT !.pos = pos, !.off = pos], ErrNone)

\* Discard with a fault: a negative count is taken as it is
DiscardAnyCount(r, stream, sz) ==
    IF sz > 0 /\ sz > Avail(r, stream)
    THEN Fails([r EXCEPT !.off = SourceEnd(r, stream)], ErrEOF)
    ELSE Fails(Consumed(r, sz), ErrNone)

Discard(r, stream, sz) ==
    IF sz < 0 THEN Fails(r, ErrNegativeCount)
    ELSE IF sz > 0 /\ Avail(r, stream) < sz
    THEN Fails([r EXCEPT !.off = SourceEnd(r, stream)], ErrEOF)
    ELSE Fails(Consumed(r, sz), ErrNone)

ReadSizeField(r, stream) ==
    IF Avail(r, stream) < sizeFieldLen THEN Drained(r, stream)
    ELSE Returns(Consumed(r, sizeFieldLen), ErrNone, <<>>, FALSE,
                 Uint32(Bytes(r, stream, sizeFieldLen)))

ReadIntField(r, stream) ==
    IF Avail(r, stream) < sizeInt64 THEN Drained(r, stream)
    ELSE Returns(Consumed(r, sizeInt64), ErrNone, <<>>, FALSE,
                 Varint(Bytes(r, stream, sizeInt64)))

\* ReadFloatField: math.Float64frombits(binary.LittleEndian.Uint64(bs))
ReadFloatField(r, stream) ==
    IF Avail(r, stream) < sizeFloat64 THEN Drained(r, stream)
    ELSE [Returns(Consumed(r, sizeFloat64), ErrNone, <<>>, FALSE, 0)
             EXCEPT !.f = Uint64(Bytes(r, stream, sizeFloat64))]

ReadFixedStringField(r, stream, sz) ==
    IF sz > 0 /\ Avail(r, stream) < sz THEN Drained(r, stream)
    ELSE Returns(Consumed(r, sz), ErrNone, Bytes(r, stream, sz), FALSE, 0)

\* ReadStringField with a fault: the bytes of the size are read but not
\* counted
ReadStringFieldSizeUncounted(r, stream) ==
    LET h == ReadSizeField(r, stream)
    IN  IF h.err # ErrNone THEN h
        ELSE ReadFixedStringField(Fails([h EXCEPT !.pos = r.pos], ErrNone), stream, h.n)

ReadStringField(r, stream) ==
    LET h == ReadSizeField(r, stream)
    IN  IF h.err # ErrNone THEN h
        ELSE ReadFixedStringField(Fails(h, ErrNone), stream, h.n)

ReadBoolField(r, stream) ==
    IF Avail(r, stream) < 1 THEN Drained(r, stream)
    ELSE Returns(Consumed(r, 1), ErrNone, <<>>, Bytes(r, stream, 1)[1] = 1, 0)

-----------------------------------------------------------------------------
(* Reading the index *)

ErrIndexHeaderLength == "unexpected index header read length"
ErrUnexpectedIndexPosition == "unexpected index position"
ErrPanic == "panic"

IndexEntry(name, type, size, indexed, indexSize, indexType, subType, subs) ==
    [FieldName |-> name, FieldType |-> type, FieldSize |-> size,
     Indexed |-> indexed, IndexSize |-> indexSize, IndexType |-> indexType,
     SubfieldType |-> subType, Subfields |-> subs]

Ok(r) == r.err = ErrNone

RECURSIVE readIndexEntriesFrom(_, _, _, _, _, _)
RECURSIVE readIndexEntry(_, _, _)

\* One pass of the loop of readIndexEntries reads an entry piece by piece.
\* p holds the reader, the entry as far as it is read and the subfield
\* count; a piece is read only if every read before it succeeded.
NewEntry(r) ==
    [r |-> r, e |-> IndexEntry(<<>>, 0, 0, FALSE, 0, 0, 0, <<>>), count |-> 0]

IsArray(p) == Ok(p.r) /\ p.e.FieldType = FieldTypeArray

ReadName(p, stream) ==
    LET x == ReadStringField(p.r, stream)
    IN  [p EXCEPT !.r = x, !.e.FieldName = x.s]

ReadType(p, stream) ==
    IF ~Ok(p.r) THEN p
    ELSE LET x == ReadSizeField(p.r, stream)
         IN  [p EXCEPT !.r = x, !.e.FieldType = x.n]

\* ReadIndexed with a fault: the flag is read whatever the version
ReadIndexedAnyVersion(p, stream) ==
    IF ~IsArray(p) THEN p
    ELSE LET x == ReadBoolField(p.r, stream)
         IN  [p EXCEPT !.r = x, !.e.Indexed = x.b]

ReadIndexed(p, stream) ==
    IF ~(IsArray(p) /\ p.r.indexVersion >= 2) THEN p
    ELSE LET x == ReadBoolField(p.r, stream)
         IN  [p EXCEPT !.r = x, !.e.Indexed = x.b]

ReadIndexType(p, stream) ==
    IF ~(Ok(p.r) /\ p.e.Indexed) THEN p
    ELSE LET x == ReadSizeField(p.r, stream)
         IN  [p EXCEPT !.r = x, !.e.IndexType = x.n]

ReadIndexSize(p, stream) ==
    IF ~(Ok(p.r) /\ p.e.Indexed) THEN p
    ELSE LET x == ReadSizeField(p.r, stream)
         IN  [p EXCEPT !.r = x, !.e.IndexSize = x.n]

ReadSubfieldType(p, stream) ==
    IF ~(IsArray(p) /\ p.r.indexVersion >= 2) THEN p
    ELSE LET x == ReadSizeField(p.r, stream)
         IN  [p EXCEPT !.r = x, !.e.SubfieldType = x.n]

ReadSubfieldCount(p, stream) ==
    IF ~IsArray(p) THEN p
    ELSE LET x == ReadSizeField(p.r, stream)
         IN  [p EXCEPT !.r = x, !.count = x.n]

ReadFieldSize(p, stream) ==
    IF ~(Ok(p.r) /\ p.e.FieldType = FieldTypeFixedStr) THEN p
    ELSE LET x == ReadSizeField(p.r, stream)
         IN  [p EXCEPT !.r = x, !.e.FieldSize = x.n]

\* the entry at the reader's position up to its subfields
readIndexEntryHead(r, stream) ==
    ReadFieldSize(
      ReadSubfieldCount(
        ReadSubfieldType(
          ReadIndexSize(
            ReadIndexType(
              ReadIndexed(
                ReadType(ReadName(NewEntry(r), stream), stream),
                stream), stream), stream), stream), stream), stream)

\* the check with a fault: an entry that passes the end of the index is
\* taken, and the cursor is set back to the end
readIndexEntryTailLenient(p, stream, finalPos) ==
    IF ~Ok(p.r) THEN [r |-> Fails(p.r, p.r.err), entry |-> <<>>]
    ELSE IF p.r.pos > finalPos
    THEN [r |-> Fails([p.r EXCEPT !.pos = finalPos], ErrNone), entry |-> p.e]
    ELSE IF p.count = 0 THEN [r |-> Fails(p.r, ErrNone), entry |-> p.e]
    ELSE LET subs == readIndexEntriesFrom(p.r, stream, finalPos, p.count, 0, <<>>)
         IN  IF ~Ok(subs.r) THEN [r |-> subs.r, entry |-> <<>>]
             ELSE [r |-> Fails(subs.r, ErrNone),
                   entry |-> [p.e EXCEPT !.Subfields = subs.entries]]

\* the check of the position after the head, then the subfields
readIndexEntryTail(p, stream, finalPos) ==
    IF ~Ok(p.r) THEN [r |-> Fails(p.r, p.r.err), entry |-> <<>>]
    ELSE IF p.r.pos > finalPos
    THEN [r |-> Fails(p.r, ErrUnexpectedIndexPosition), entry |-> <<>>]
    ELSE IF p.count = 0 THEN [r |-> Fails(p.r, ErrNone), entry |-> p.e]
    ELSE LET subs == readIndexEntriesFrom(p.r, stream, finalPos, p.count, 0, <<>>)
         IN  IF ~Ok(subs.r) THEN [r |-> subs.r, entry |-> <<>>]
             ELSE [r |-> Fails(subs.r, ErrNone),
                   entry |-> [p.e EXCEPT !.Subfields = subs.entries]]

readIndexEntry(r, stream, finalPos) ==
    readIndexEntryTail(readIndexEntryHead(r, stream), stream, finalPos)

readIndexEntriesFrom(r, stream, finalPos, limit, pass, entries) ==
    IF limit # 0 /\ pass = limit THEN [r |-> Fails(r, ErrNone), entries |-> entries]
    ELSE IF r.pos = finalPos THEN [r |-> Fails(r, ErrNone), entries |-> entries]
    ELSE LET e == readIndexEntry(r, stream, finalPos)
         IN  IF ~Ok(e.r) THEN [r |-> e.r, entries |-> <<>>]
             ELSE readIndexEntriesFrom(e.r, stream, finalPos, limit, pass + 1,
                                       Append(entries, e.entry))

readIndexEntries(r, stream, finalPos, limit) ==
    readIndexEntriesFrom(r, stream, finalPos, limit, 0, <<>>)

\* ReadIndex after the header: the size of the index, read whole when the
\* header was the version, completed by one byte when the header was the
\* start of the size
readIndexSize(r, stream, isV2) ==
    IF isV2 THEN ReadSizeField([Consumed(r, 3) EXCEPT !.indexVersion = 2], stream)
    ELSE IF Avail(r, stream) < sizeFieldLen
    THEN Fails([r EXCEPT !.indexVersion = 1, !.off = r.off + 3], ErrEOF)
    ELSE Returns([Consumed(r, sizeFieldLen) EXCEPT !.indexVersion = 1],
                 ErrNone, <<>>, FALSE, Uint32(Bytes(r, stream, sizeFieldLen)))

\* ReadIndex after the size, with a fault: the end of the index is taken to
\* be the size past the size field
readIndexBodyLate(rs, stream) ==
    IF ~Ok(rs) THEN Fails(rs, rs.err)
    ELSE LET es == readIndexEntries(rs, stream, rs.pos + rs.n, 0)
         IN  [es.r EXCEPT !.index = es.entries]

\* ReadIndex after the size: f.index, err = f.readIndexEntries(...)
readIndexBody(rs, stream) ==
    IF ~Ok(rs) THEN Fails(rs, rs.err)
    ELSE LET es == readIndexEntries(rs, stream, rs.pos + rs.n - sizeFieldLen, 0)
         IN  [es.r EXCEPT !.index = es.entries]

\* ReadIndex: the three bytes of the header decide the index version; an
\* index without a version has these bytes as the start of its size
ReadIndex(r, stream) ==
    IF Avail(r, stream) <= 0 THEN Fails(r, ErrEOF)
    ELSE IF Avail(r, stream) < 3
    THEN Fails([r EXCEPT !.off = Len(stream)], ErrIndexHeaderLength)
    ELSE readIndexBody(readIndexSize(r, stream, Bytes(r, stream, 3) = IndexVersion2), stream)

SetIndex(r, newIndex) == Fails([r EXCEPT !.index = newIndex], ErrNone)

-----------------------------------------------------------------------------
(* Navigation by the index *)

\* advance with a fault: the size of an array is taken not to count its own
\* four bytes
advanceArrayWhole(r, stream, advField) ==
    LET sz == ReadSizeField(r, stream)
        ft == advField.FieldType
    IN  IF ft = FieldTypeFixedStr THEN Discard(r, stream, advField.FieldSize)
        ELSE IF ft = FieldTypeArray
        THEN IF ~Ok(sz) THEN sz ELSE Discard(sz, stream, sz.n)
        ELSE IF ft = FieldTypeVarStr
        THEN IF ~Ok(sz) THEN sz ELSE Discard(sz, stream, sz.n)
        ELSE IF ft = FieldTypeBool THEN Discard(r, stream, 1)
        ELSE IF ft = FieldTypeInt64 THEN Discard(r, stream, sizeInt64)
        ELSE IF ft = FieldTypeFloat THEN Discard(r, stream, sizeFloat64)
        ELSE Fails(r, ErrUnexpectedIndexFieldType)

\* advance with a fault: a field of a type that is not known is taken for
\* one byte
advanceUnknownAsByte(r, stream, advField) ==
    LET sz == ReadSizeField(r, stream)
        ft == advField.FieldType
    IN  IF ft = FieldTypeFixedStr THEN Discard(r, stream, advField.FieldSize)
        ELSE IF ft = FieldTypeArray
        THEN IF ~Ok(sz) THEN sz ELSE Discard(sz, stream, sz.n - sizeFieldLen)
        ELSE IF ft = FieldTypeVarStr
        THEN IF ~Ok(sz) THEN sz ELSE Discard(sz, stream, sz.n)
        ELSE IF ft = FieldTypeInt64 THEN Discard(r, stream, sizeInt64)
        ELSE IF ft = FieldTypeFloat THEN Discard(r, stream, sizeFloat64)
        ELSE Discard(r, stream, 1)

advance(r, stream, advField) ==
    LET sz == ReadSizeField(r, stream)
        ft == advField.FieldType
    IN  IF ft = FieldTypeFixedStr THEN Discard(r, stream, advField.FieldSize)
        ELSE IF ft = FieldTypeArray
        THEN IF ~Ok(sz) THEN sz ELSE Discard(sz, stream, sz.n - sizeFieldLen)
        ELSE IF ft = FieldTypeVarStr
        THEN IF ~Ok(sz) THEN sz ELSE Discard(sz, stream, sz.n)
        ELSE IF ft = FieldTypeBool THEN Discard(r, stream, 1)
        ELSE IF ft = FieldTypeInt64 THEN Discard(r, stream, sizeInt64)
        ELSE IF ft = FieldTypeFloat THEN Discard(r, stream, sizeFloat64)
        ELSE Fails(r, ErrUnexpectedIndexFieldType)

\* the position in `next` of the first entry that `field` matches, 0 if none
RECURSIVE FindEntry(_, _, _)
FindEntry(next, field, i) ==
    IF i > Len(next) THEN 0
    ELSE IF next[i].FieldName = field \/ field = Top THEN i
    ELSE FindEntry(next, field, i + 1)

\* the loop of entrySet over fieldNames[k..]; atPos counts from 0 as the
\* code does, and is -1 for Top
RECURSIVE entrySetFrom(_, _, _, _, _)
entrySetFrom(fieldNames, k, at, atPos, next) ==
    IF k > Len(fieldNames) THEN [err |-> ErrNone, at |-> at, atPos |-> atPos]
    ELSE LET field == fieldNames[k]
             pos == FindEntry(next, field, 1)
         IN  IF pos = 0 THEN [err |-> ErrNoSuchField, at |-> <<>>, atPos |-> 0]
             ELSE entrySetFrom(fieldNames, k + 1, next,
                               IF field = Top THEN -1 ELSE pos - 1,
                               next[pos].Subfields)

\* entrySet(index, fieldNames...); isNil says that fieldNames is the nil slice
entrySet(index, fieldNames, isNil) ==
    entrySetFrom(IF isNil THEN <<Top>> ELSE fieldNames, 1, index, 0, index)

\* the loop  for i := lo; i < hi; i++ { f.advance(from[i], buf) }  ; reading
\* from[i] past the end of from is a run-time panic
RECURSIVE advanceLoop(_, _, _, _, _)
advanceLoop(r, stream, from, i, hi) ==
    IF i >= hi THEN Fails(r, ErrNone)
    ELSE IF i < 0 \/ i >= Len(from) THEN Fails(r, ErrPanic)
    ELSE LET a == advance(r, stream, from[i + 1])
         IN  IF ~Ok(a) THEN Fails(a, a.err)
             ELSE advanceLoop(a, stream, from, i + 1, hi)

\* AdvanceTo with a fault: the reader's position is the target also when the
\* index has no such field
AdvanceToMovesOnError(r, stream, fieldNames) ==
    LET at == IF Len(fieldNames) < Len(r.at) THEN SubSeq(r.at, 1, Len(fieldNames))
              ELSE IF Len(r.at) < Len(fieldNames) THEN Append(r.at, Top)
              ELSE r.at
        atNil == r.at = <<>> /\ Len(fieldNames) = 0
        from == entrySet(r.index, at, atNil)
        to == entrySet(r.index, fieldNames, fieldNames = <<>>)
        done == advanceLoop(r, stream, from.at, from.atPos + 1, to.atPos)
    IN  IF from.err # ErrNone THEN Fails(r, from.err)
        ELSE IF to.err # ErrNone THEN Fails([r EXCEPT !.at = fieldNames], to.err)
        ELSE IF ~Ok(done) THEN done
        ELSE [done EXCEPT !.at = fieldNames]

\* AdvanceTo with a fault: the position cut or extended to the length of the
\* target is stored in the reader before the target is looked up
AdvanceToStoresCut(r, stream, fieldNames) ==
    LET at == IF Len(fieldNames) < Len(r.at) THEN SubSeq(r.at, 1, Len(fieldNames))
              ELSE IF Len(r.at) < Len(fieldNames) THEN Append(r.at, Top)
              ELSE r.at
        atNil == r.at = <<>> /\ Len(fieldNames) = 0
        from == entrySet(r.index, at, atNil)
        to == entrySet(r.index, fieldNames, fieldNames = <<>>)
        done == advanceLoop(r, stream, from.at, from.atPos + 1, to.atPos)
    IN  IF from.err # ErrNone THEN Fails([r EXCEPT !.at = at], from.err)
        ELSE IF to.err # ErrNone THEN Fails([r EXCEPT !.at = at], to.err)
        ELSE IF ~Ok(done) THEN done
        ELSE [done EXCEPT !.at = fieldNames]

AdvanceTo(r, stream, fieldNames) ==
    LET at == IF Len(fieldNames) < Len(r.at) THEN SubSeq(r.at, 1, Len(fieldNames))
              ELSE IF Len(r.at) < Len(fieldNames) THEN Append(r.at, Top)
              ELSE r.at
        atNil == r.at = <<>> /\ Len(fieldNames) = 0
        from == entrySet(r.index, at, atNil)
        to == entrySet(r.index, fieldNames, fieldNames = <<>>)
        done == advanceLoop(r, stream, from.at, from.atPos + 1, to.atPos)
    IN  IF from.err # ErrNone THEN Fails(r, from.err)
        ELSE IF to.err # ErrNone THEN Fails(r, to.err)
        ELSE IF ~Ok(done) THEN done
        ELSE [done EXCEPT !.at = fieldNames]

\* AdvanceToNextElement with a fault: the fields after the current one are
\* not skipped
AdvanceToNextElementStays(r, stream, fieldNames) ==
    LET from == entrySet(r.index, r.at, r.at = <<>>)
    IN  IF from.err # ErrNone THEN Fails(r, from.err)
        ELSE IF Len(fieldNames) > 0 THEN Fails([r EXCEPT !.at = fieldNames], ErrNone)
        ELSE IF Len(r.at) = 0 THEN Fails(r, ErrPanic)
        ELSE Fails([r EXCEPT !.at = Append(SubSeq(r.at, 1, Len(r.at) - 1), Top)], ErrNone)

AdvanceToNextElement(r, stream, fieldNames) ==
    LET from == entrySet(r.index, r.at, r.at = <<>>)
        done == advanceLoop(r, stream, from.at, from.atPos + 1, Len(from.at))
    IN  IF from.err # ErrNone THEN Fails(r, from.err)
        ELSE IF ~Ok(done) THEN done
        ELSE IF Len(fieldNames) > 0 THEN [done EXCEPT !.at = fieldNames]
        ELSE IF Len(r.at) = 0 THEN Fails(done, ErrPanic)
        ELSE [done EXCEPT !.at = Append(SubSeq(r.at, 1, Len(r.at) - 1), Top)]

-----------------------------------------------------------------------------
(* The values written.  Field names are one byte long, strings hold bytes  *)
(* below 128 and integers fit one byte of a varint.                        *)

nA == <<97>>
nC == <<99>>
nD == <<100>>
nE == <<101>>
nG == <<103>>
nH == <<104>>
nJ == <<106>>
nK == <<107>>
nL == <<108>>
nM == <<109>>
nN == <<110>>
nO == <<111>>
nQ == <<113>>
nR == <<114>>
nT == <<116>>
nU == <<117>>
nV == <<118>>
nW == <<119>>
nY == <<121>>
nZ == <<122>>
nNotHere == <<63>>

Plain(name) == Raw(name, FALSE, 0, <<>>)

\* struct { Date `rsf:"d,skip,fixed:2"`; Name `rsf:"n"`; Verified `rsf:"v"`; _ `rsf:"-"` }
snapS ==
    TStruct(<<Fld(Raw(nD, TRUE, 2, <<>>), TString), Fld(Plain(nN), TString),
              Fld(Plain(nV), TBool), Fld(RawIgnore, TString)>>)
\* snapS with the fields u (fixed:3) and t added
snapSp ==
    TStruct(<<Fld(Raw(nD, TRUE, 2, <<>>), TString), Fld(Raw(nU, FALSE, 3, <<>>), TString),
              Fld(Plain(nN), TString), Fld(Plain(nV), TBool), Fld(Plain(nT), TBool),
              Fld(RawIgnore, TString)>>)
\* struct { ID int64 `rsf:"e,skip"`; Name `rsf:"m"` }
prodS == TStruct(<<Fld(Raw(nE, TRUE, 0, <<>>), TInt), Fld(Plain(nM), TString)>>)
\* struct { Name `rsf:"m"`; Tags []string `rsf:"w"` }
innerS == TStruct(<<Fld(Plain(nM), TString), Fld(Plain(nW), TSlice(TString))>>)

\* the record of the reader tests: an ignored field, company, ready, the
\* list indexed by date, age, rating
S ==
    TStruct(<<Fld(RawIgnore, TString), Fld(Plain(nC), TString), Fld(Plain(nR), TBool),
              Fld(Raw(nL, FALSE, 0, nD), TSlice(snapS)), Fld(Plain(nA), TInt),
              Fld(Plain(nG), TFloat)>>)
\* S with fields added first, in the middle (an array among them), inside
\* the list's elements and last
Sp ==
    TStruct(<<Fld(RawIgnore, TString), Fld(Plain(nO), TString), Fld(Plain(nC), TString),
              Fld(Plain(nR), TBool), Fld(Raw(nQ, FALSE, 0, nE), TSlice(prodS)),
              Fld(Raw(nL, FALSE, 0, nD), TSlice(snapSp)), Fld(Plain(nA), TInt),
              Fld(Plain(nG), TFloat), Fld(Plain(nZ), TString)>>)
\* a record whose last field is the list
E == TStruct(<<Fld(Plain(nC), TString), Fld(Raw(nL, FALSE, 0, nD), TSlice(snapS))>>)
\* E with a field added after the list
Ep ==
    TStruct(<<Fld(Plain(nC), TString), Fld(Raw(nL, FALSE, 0, nD), TSlice(snapS)),
              Fld(Plain(nZ), TString)>>)
\* arrays of every kind: indexed by an integer, of strings, of fixed
\* strings, of integers, of structs that hold an array
K ==
    TStruct(<<Fld(Raw(nK, FALSE, 0, nE), TSlice(prodS)), Fld(Plain(nW), TSlice(TString)),
              Fld(Raw(nH, FALSE, 2, <<>>), TSlice(TString)), Fld(Plain(nY), TSlice(TInt)),
              Fld(Plain(nJ), TSlice(innerS))>>)
\* struct { Code `rsf:"c,fixed:2"` }
F == TStruct(<<Fld(Raw(nC, FALSE, 2, <<>>), TString)>>)
\* struct { Name string; Certified bool }: no field carries a tag
myS == TStruct(<<Fld(RawEmpty, TString), Fld(RawEmpty, TBool)>>)
\* a record whose list is indexed by v, a bool of its elements
B == TStruct(<<Fld(Plain(nC), TString), Fld(Raw(nL, FALSE, 0, nV), TSlice(snapS))>>)

sNone == <<>>
sA == <<65>>
sBC == <<66, 67>>
sDEF == <<68, 69, 70>>
d10 == <<49, 48>>
d21 == <<50, 49>>

In(sch, ty, v) == [sch |-> sch, ty |-> ty, v |-> v]

\* what WriteObject is called with: [sch |-> the number of the type in
\* Schemas (0 for a value that is no struct), ty, v]
Inputs ==
    << In(1, S, <<sNone, sBC, TRUE, << <<d10, sA, FALSE, sNone>>, <<d21, sBC, TRUE, sNone>> >>,
               -3, FloatPlain>>),
       In(1, S, <<sA, sNone, FALSE, <<>>, 5, FloatZero>>),
       In(2, Sp, <<sNone, sA, sBC, TRUE, << <<7, sBC>> >>,
                << <<d10, sDEF, sA, FALSE, TRUE, sNone>>,
                   <<d21, sDEF, sBC, TRUE, FALSE, sNone>> >>,
                -3, FloatPlain, sA>>),
       In(2, Sp, <<sA, sBC, sNone, FALSE, <<>>, <<>>, 5, FloatZero, sBC>>),
       In(3, E, <<sA, << <<d10, sBC, TRUE, sNone>>, <<d21, sNone, FALSE, sNone>> >> >>),
       In(4, Ep, <<sA, << <<d10, sBC, TRUE, sNone>>, <<d21, sNone, FALSE, sNone>> >>, sBC>>),
       In(5, K, << << <<5, sA>>, <<-3, sNone>> >>, <<sA, sBC>>, <<d10>>, <<7, -2>>,
                  << <<sBC, <<sA>> >>, <<sNone, <<>> >> >> >>),
       In(6, F, <<sA>>),
       In(6, F, <<d10>>),
       In(0, TString, sBC),
       In(0, TSlice(TString), <<sA, sBC>>),
       In(0, TSlice(TInt), <<>>),
       In(7, B, <<sA, << <<d10, sBC, TRUE, sNone>> >> >>),
       In(7, B, <<sBC, <<>> >>),
       In(0, TSlice(myS), << <<sA, TRUE>>, <<sBC, FALSE>> >>) >>

\* the schemas a consumer may have been compiled with
Schemas == <<S, Sp, E, Ep, K, F, B>>
SchemaFam == <<1, 1, 2, 2, 3, 4, 5>>

-----------------------------------------------------------------------------
(* Consumers.  A consumer is a list of reader calls                        *)
(*   [op, path, k]    the call: its field names, its size argument         *)
(*   [dep]            the call is made only if call number dep, a probing  *)
(*                    AdvanceTo, did not return ErrNoSuchField (0: always) *)
(*   [chk, s, b, n]   what the consumer expects back: "val" the value,     *)
(*                    "ok" no error, "nosuch" ErrNoSuchField, "end" no     *)
(*                    error at the end of the record, "none" nothing       *)
(*   [fld]            the path of the field the call reads                 *)

Call(op, path, k) ==
    [op |-> op, path |-> path, k |-> k, dep |-> 0, chk |-> "none",
     s |-> <<>>, b |-> FALSE, n |-> 0, f |-> FloatZero, fld |-> <<>>]

Must(c, chk) == [c EXCEPT !.chk = chk]
After(c, dep) == [c EXCEPT !.dep = dep]

\* the read call for a scalar of type ty (a string of fixed size when
\* fixed > 0) that is expected to return v
ReadCall(ty, fixed, v, fld) ==
    LET c == Call(CASE ty.kind = "string" ->
                         IF fixed > 0 THEN "ReadFixedStringField" ELSE "ReadStringField"
                    [] ty.kind = "bool" -> "ReadBoolField"
                    [] ty.kind = "int" -> "ReadIntField"
                    [] ty.kind = "float64" -> "ReadFloatField"
                    [] OTHER -> "ReadSizeField",
                  <<>>, IF ty.kind = "string" THEN fixed ELSE 0)
    IN  CASE ty.kind = "string" -> [c EXCEPT !.chk = "val", !.s = v, !.fld = fld]
          [] ty.kind = "bool" -> [c EXCEPT !.chk = "val", !.b = v, !.fld = fld]
          [] ty.kind = "int" -> [c EXCEPT !.chk = "val", !.n = v, !.fld = fld]
          [] ty.kind = "float64" -> [c EXCEPT !.chk = "val", !.f = v, !.fld = fld]
          [] OTHER -> [c EXCEPT !.fld = fld]

\* the same call with nothing expected back
ReadAny(ty, fixed, fld) ==
    [ReadCall(ty, fixed, CASE ty.kind = "string" -> <<>>
                           [] ty.kind = "bool" -> FALSE
                           [] OTHER -> 0, fld) EXCEPT !.chk = "none"]

\* the position in the struct type ty of the field tagged name, 0 if none
RECURSIVE FieldPos(_, _, _)
FieldPos(ty, name, i) ==
    IF i > Len(ty.fields) THEN 0
    ELSE IF ~ty.fields[i].raw.ignore /\ ty.fields[i].raw.name = name THEN i
    ELSE FieldPos(ty, name, i + 1)

\* a field that is serialized in the record
Written(f) == ~f.raw.ignore /\ ~f.raw.skip

\* the reads of the index table of an array: per element its key, then
\* the element's size
RECURSIVE KeyCalls(_, _, _, _, _)
KeyCalls(elem, index, v, i, dep) ==
    IF i > Len(v) THEN <<>>
    ELSE LET kp == FieldPos(elem, index, 1)
             kf == elem.fields[kp]
         IN  << After(ReadCall(kf.type, kf.raw.fixed, v[i][kp], <<>>), dep),
                After(Call("ReadSizeField", <<>>, 0), dep) >>
             \o KeyCalls(elem, index, v, i + 1, dep)

\* the two sizes every array starts with: its bytes, its length
HeadCalls(n, fld, dep) ==
    << After([Call("ReadSizeField", <<>>, 0) EXCEPT !.fld = fld], dep),
       After([Must(Call("ReadSizeField", <<>>, 0), "val") EXCEPT !.n = n], dep) >>

RECURSIVE SeqCalls(_, _, _, _)
RECURSIVE SeqFields(_, _, _, _)
RECURSIVE SeqElems(_, _, _, _, _)

\* the consumer that reads everything in the order it was written
SeqCalls(ty, v, raw, fld) ==
    CASE ty.kind = "struct" -> SeqFields(ty, v, fld, 1)
      [] ty.kind = "slice" ->
            HeadCalls(Len(v), fld, 0)
            \o (IF raw.index # <<>> THEN KeyCalls(ty.elem, raw.index, v, 1, 0) ELSE <<>>)
            \o SeqElems(ty, v, raw, fld, 1)
      [] OTHER -> <<ReadCall(ty, raw.fixed, v, fld)>>

SeqFields(ty, v, fld, i) ==
    IF i > Len(ty.fields) THEN <<>>
    ELSE (IF Written(ty.fields[i])
          THEN SeqCalls(ty.fields[i].type, v[i], ty.fields[i].raw,
                        Append(fld, ty.fields[i].raw.name))
          ELSE <<>>)
         \o SeqFields(ty, v, fld, i + 1)

SeqElems(ty, v, raw, fld, i) ==
    IF i > Len(v) THEN <<>>
    ELSE SeqCalls(ty.elem, v[i], raw, IF ty.elem.kind = "struct" THEN fld ELSE <<>>)
         \o SeqElems(ty, v, raw, fld, i + 1)

SeqProg(ty, v) ==
    <<Must(Call("ReadIndex", <<>>, 0), "ok"), Call("ReadSizeField", <<>>, 0)>>
    \o SeqCalls(ty, v, RawIgnore, <<>>)


\* The consumer of the downgrade tests, compiled with schema C and reading
\* a record v written under schema W: it probes each of its fields with
\* AdvanceTo and reads the field if it is there; it reads the header and the
\* index table of an array itself and calls AdvanceToNextElement after every
\* element and at the end of the record.  acc holds the calls so far.
RECURSIVE NavFields(_, _, _, _, _)
RECURSIVE NavElems(_, _, _, _, _, _)
RECURSIVE NavElemFields(_, _, _, _, _, _)

NavElemFields(f, WE, val, i, acc, pidx) ==
    IF i > Len(f.type.elem.fields) THEN acc
    ELSE LET g == f.type.elem.fields[i]
             j == FieldPos(WE, g.raw.name, 1)
             present == j > 0 /\ Written(WE.fields[j])
             path == <<f.raw.name, g.raw.name>>
             probe == After(Must(Call("AdvanceTo", path, 0),
                                 IF present THEN "ok" ELSE "nosuch"), pidx)
             read == IF present THEN ReadCall(g.type, g.raw.fixed, val[j], path)
                     ELSE ReadAny(g.type, g.raw.fixed, path)
         IN  IF ~Written(g) THEN NavElemFields(f, WE, val, i + 1, acc, pidx)
             ELSE NavElemFields(f, WE, val, i + 1,
                                acc \o <<probe, After(read, Len(acc) + 1)>>, pidx)

NavElems(f, WE, ve, e, acc, pidx) ==
    IF e > Len(ve) THEN acc
    ELSE NavElems(f, WE, ve, e + 1,
                  Append(NavElemFields(f, WE, ve[e], 1, acc, pidx),
                         After(Must(Call("AdvanceToNextElement", <<>>, 0), "ok"), pidx)),
                  pidx)

NavFields(C, W, v, i, acc) ==
    IF i > Len(C.fields) THEN acc
    ELSE LET f == C.fields[i]
             j == FieldPos(W, f.raw.name, 1)
             present == j > 0 /\ Written(W.fields[j])
             path == <<f.raw.name>>
             pidx == Len(acc) + 1
             probe == Must(Call("AdvanceTo", path, 0), IF present THEN "ok" ELSE "nosuch")
             read == IF present THEN ReadCall(f.type, f.raw.fixed, v[j], path)
                     ELSE ReadAny(f.type, f.raw.fixed, path)
             WE == IF present THEN W.fields[j].type.elem ELSE f.type.elem
             ve == IF present THEN v[j] ELSE <<>>
             head == HeadCalls(Len(ve), path, pidx)
             table == (IF present THEN head ELSE <<head[1], Must(head[2], "none")>>)
                      \o (IF f.raw.index # <<>>
                          THEN KeyCalls(WE, f.raw.index, ve, 1, pidx) ELSE <<>>)
         IN  IF ~Written(f) THEN NavFields(C, W, v, i + 1, acc)
             ELSE IF f.type.kind = "slice"
             THEN NavFields(C, W, v, i + 1,
                            NavElems(f, WE, ve, 1, Append(acc, probe) \o table, pidx))
             ELSE NavFields(C, W, v, i + 1, acc \o <<probe, After(read, pidx)>>)

NavProg(C, W, v) ==
    Append(NavFields(C, W, v, 1,
                     <<Must(Call("ReadIndex", <<>>, 0), "ok"), Call("ReadSizeField", <<>>, 0)>>),
           Must(Call("AdvanceToNextElement", <<>>, 0), "end"))

\* the paths of the fields of a record v of type ty that hold one value, in
\* declaration order: the fields of the record and, under an array of
\* structs that has an element, the fields of its elements
RECURSIVE ElemPaths(_, _, _)
ElemPaths(name, elem, i) ==
    IF i > Len(elem.fields) THEN <<>>
    ELSE (IF Written(elem.fields[i]) /\ elem.fields[i].type.kind # "slice"
          THEN << <<name, elem.fields[i].raw.name>> >> ELSE <<>>)
         \o ElemPaths(name, elem, i + 1)

RECURSIVE Paths(_, _, _)
Paths(ty, v, i) ==
    IF i > Len(ty.fields) THEN <<>>
    ELSE LET f == ty.fields[i]
         IN  (IF ~Written(f) THEN <<>>
              ELSE IF f.type.kind # "slice" THEN << <<f.raw.name>> >>
              ELSE IF f.type.elem.kind = "struct" /\ Len(v[i]) > 0
                   THEN ElemPaths(f.raw.name, f.type.elem, 1) ELSE <<>>)
             \o Paths(ty, v, i + 1)

\* the field of the struct type ty that the path names
FieldAt(ty, path) ==
    LET f == ty.fields[FieldPos(ty, path[1], 1)]
    IN  IF Len(path) = 1 THEN f
        ELSE f.type.elem.fields[FieldPos(f.type.elem, path[2], 1)]

ReadAt(ty, path) == ReadAny(FieldAt(ty, path).type, FieldAt(ty, path).raw.fixed, path)

\* the reader of the skip property: ReadIndex, the size of the record,
\* then AdvanceTo(p1); read p1; AdvanceTo(p2); read p2
SkipProg(ty, p1, p2) ==
    <<Must(Call("ReadIndex", <<>>, 0), "ok"), Call("ReadSizeField", <<>>, 0),
      Must(Call("AdvanceTo", p1, 0), "ok"), ReadAt(ty, p1),
      Must(Call("AdvanceTo", p2, 0), "ok"), ReadAt(ty, p2)>>

-----------------------------------------------------------------------------
(* Running a consumer *)

ErrSkipped == "not called"

Out(err, s, b, n, f) == [err |-> err, s |-> s, b |-> b, n |-> n, f |-> f]
OutOf(r) == Out(r.err, r.s, r.b, r.n, r.f)
NotCalled == Out(ErrSkipped, <<>>, FALSE, 0, FloatZero)

\* the consumer's  if err != ErrNoSuchField { ... }  around a call
IsSkipped(c, out) == c.dep > 0 /\ out[c.dep].err \in {ErrNoSuchField, ErrSkipped}

Exec(c, r, stream) ==
    CASE c.op = "ReadIndex" -> ReadIndex(r, stream)
      [] c.op = "ReadSizeField" -> ReadSizeField(r, stream)
      [] c.op = "ReadStringField" -> ReadStringField(r, stream)
      [] c.op = "ReadFixedStringField" -> ReadFixedStringField(r, stream, c.k)
      [] c.op = "ReadBoolField" -> ReadBoolField(r, stream)
      [] c.op = "ReadIntField" -> ReadIntField(r, stream)
      [] c.op = "ReadFloatField" -> ReadFloatField(r, stream)
      [] c.op = "Discard" -> Discard(r, stream, c.k)
      [] c.op = "AdvanceTo" -> AdvanceTo(r, stream, c.path)
      [] c.op = "AdvanceToNextElement" -> AdvanceToNextElement(r, stream, c.path)

\* the whole consumer on a stream: [r |-> the reader at the end, out |-> what
\* each call returned]
RECURSIVE Run(_, _, _, _, _)
Run(prog, i, r, stream, out) ==
    IF i > Len(prog) \/ r.err = ErrPanic THEN [r |-> r, out |-> out]
    ELSE IF IsSkipped(prog[i], out) THEN Run(prog, i + 1, r, stream, Append(out, NotCalled))
    ELSE LET r2 == Exec(prog[i], r, stream)
         IN  Run(prog, i + 1, r2, stream, Append(out, OutOf(r2)))

-----------------------------------------------------------------------------
(* The state machine: one writer fills the sink with at most MaxObjects    *)
(* WriteObject calls; then a consumer opens a reader on the sink and makes *)
(* its calls one by one.                                                   *)

MaxObjects == 2
MaxFreeSteps == 2

VARIABLES
    wVersion,      \* rsfWriter.version
    wpos,          \* rsfWriter.pos, the number of objects written
    sink,          \* the bytes the writer's io.Writer has received
    wLog,          \* per WriteObject call: its input, what it returned, where it wrote
    opened,        \* the consumer has opened its reader
    cons,          \* the consumer: [kind, cs, i1, i2]
    prog,          \* the consumer's calls
    pc,            \* the number of the consumer's next call
    call,          \* the consumer's last call
    out,           \* what the consumer's calls returned
    pos,           \* rsfReader.pos
    index,         \* rsfReader.index
    at,            \* rsfReader.at
    indexVersion,  \* rsfReader.indexVersion
    off,           \* the read offset of the reader's source
    ret,           \* what the reader's last call returned
    peer,          \* a second reader with a source of its own, and the
                   \* number pc of the next call made on it
    alias          \* the readers (1, 2) whose f.at is the caller's slice p

wvars == <<wVersion, wpos, sink, wLog>>
rvars == <<pos, index, at, indexVersion, off, ret>>
cvars == <<opened, cons, prog, pc, call, out>>
pvars == <<peer, alias>>
vars == <<wVersion, wpos, sink, wLog, opened, cons, prog, pc, call, out,
          pos, index, at, indexVersion, off, ret, peer, alias>>

\* the reader as the record the operations take
R ==
    [pos |-> pos, index |-> index, at |-> at, indexVersion |-> indexVersion,
     off |-> off, err |-> ret.err, s |-> ret.s, b |-> ret.b, n |-> ret.n,
     f |-> ret.f]

\* NewReader() for the second reader, no call made on it yet
PeerNew ==
    [pos |-> NewReader.pos, index |-> NewReader.index, at |-> NewReader.at,
     indexVersion |-> NewReader.indexVersion, off |-> NewReader.off,
     err |-> NewReader.err, s |-> NewReader.s, b |-> NewReader.b,
     n |-> NewReader.n, f |-> NewReader.f, pc |-> 1]

NoCall == Call("", <<>>, 0)
Consumer(kind, cs, i1, i2) == [kind |-> kind, cs |-> cs, i1 |-> i1, i2 |-> i2]

Init ==
    /\ wVersion \in {Version1, Version2}
    /\ wpos = 0
    /\ sink = <<>>
    /\ wLog = <<>>
    /\ opened = FALSE
    /\ cons = Consumer("", 0, 0, 0)
    /\ prog = <<>>
    /\ pc = 1
    /\ call = NoCall
    /\ out = <<>>
    /\ pos = NewReader.pos
    /\ index = NewReader.index
    /\ at = NewReader.at
    /\ indexVersion = NewReader.indexVersion
    /\ off = NewReader.off
    /\ ret = OutOf(NewReader)
    /\ peer = PeerNew
    /\ alias = {}

\* the sink, the object counter and the log after a call with input i that
\* did w
Wrote(i, w) ==
    /\ sink' = sink \o w.out
    /\ wpos' = w.pos
    /\ wLog' = Append(wLog,
           [in |-> i, err |-> w.err, n |-> w.n, before |-> wpos,
            start |-> Len(sink), end |-> Len(sink) + Len(w.out),
            head |-> IF w.err = ErrNone THEN w.fstart ELSE Len(w.out)])

\* w.WriteObject(Inputs[i].v)
WriteObject(i) ==
    /\ ~opened
    /\ Len(wLog) < MaxObjects
    /\ Wrote(i, WriteObjectOp(wVersion, wpos, Inputs[i].ty, Inputs[i].v))
    /\ UNCHANGED <<wVersion, opened, cons, prog, pc, call, out,
                   pos, index, at, indexVersion, off, ret, peer, alias>>

\* the first record of the sink
First == Inputs[wLog[1].in]

\* a stream of records of one struct type, every one written successfully
OneSchema ==
    /\ Len(wLog) >= 1
    /\ First.sch # 0
    /\ \A k \in 1..Len(wLog) : wLog[k].err = ErrNone /\ Inputs[wLog[k].in].sch = First.sch

\* the schemas whose consumers navigate by the index
NavFams == {1, 2}
\* the records on which a consumer makes calls of its own choice
FreeInputs == {1, 5}

FirstPaths == Paths(First.ty, First.v, 1)

\* the pairs i < j of the numbers 1..n
Pairs(n) == {q \in (1..n) \X (1..n) : q[1] < q[2]}

\* the consumers of a stream that holds one record: the one that reads
\* everything, the ones that skip to two fields, the one that keeps to no
\* protocol
OneRecordConsumers ==
    IF Len(wLog) # 1 THEN {}
    ELSE {Consumer("seq", First.sch, 0, 0)}
         \cup {Consumer("skip", First.sch, q[1], q[2]) : q \in Pairs(Len(FirstPaths))}
         \cup {Consumer("free", First.sch, 0, 0) : i \in {wLog[1].in} \cap FreeInputs}

\* the consumers that navigate by the index, compiled with a schema of the
\* family of the stream's
NavConsumers ==
    {Consumer("nav", cs, 0, 0) :
        cs \in {c \in 1..Len(Schemas) :
                  SchemaFam[c] = SchemaFam[First.sch] /\ SchemaFam[c] \in NavFams}}

\* the consumers that may read the sink
Consumers == IF ~OneSchema THEN {} ELSE OneRecordConsumers \cup NavConsumers

\* the calls of a consumer on the first record of the sink
ProgOf(c) ==
    CASE c.kind = "seq" -> SeqProg(First.ty, First.v)
      [] c.kind = "nav" -> NavProg(Schemas[c.cs], First.ty, First.v)
      [] c.kind = "skip" -> SkipProg(First.ty, FirstPaths[c.i1], FirstPaths[c.i2])
      [] OTHER -> <<Must(Call("ReadIndex", <<>>, 0), "ok"), Call("ReadSizeField", <<>>, 0)>>

\* r := NewReader() over the sink as it stands
OpenReader(c) ==
    /\ ~opened
    /\ OneSchema
    /\ opened' = TRUE
    /\ cons' = c
    /\ prog' = ProgOf(c)
    /\ UNCHANGED <<wvars, rvars, pvars, pc, call, out>>

FreePaths ==
    {<<nC>>, <<nL>>, <<nL, nN>>, <<nL, nV>>, <<nA>>, <<nNotHere>>, <<nL, nNotHere>>,
     <<nNotHere, nN>>}

\* the type codes no reader knows that an index may come with
UnknownCodes == {0, 5, 8}

\* the indexes a consumer hands to SetIndex: Index{}, the index of a record
\* that holds the one field c and, for k = 16 * j + c, the index the reader
\* has with the type code of its entry j set to c
SetIndexArg(k) ==
    IF k = 0 THEN <<>>
    ELSE IF k < 16 THEN <<IndexEntry(nC, FieldTypeVarStr, 0, FALSE, 0, 0, 0, <<>>)>>
    ELSE [index EXCEPT ![k \div 16].FieldType = k % 16]

\* what a consumer that keeps to no protocol may call
FreeCalls ==
    {Call(op, <<>>, 0) : op \in {"ReadIndex", "ReadSizeField", "ReadStringField",
                                  "ReadBoolField"}}
    \cup {Call("Discard", <<>>, k) : k \in {-1, 1}}
    \cup {Call("AdvanceTo", p, 0) : p \in FreePaths}
    \cup {Call("AdvanceToNextElement", p, 0) : p \in {<<>>, <<nL, Top>>}}
    \cup {Call("SetIndex", <<>>, k) : k \in {0, 1}}

\* the number of fields written one by one, and of calls made on them
MaxFields == 2
MaxFieldReads == 2

\* what a consumer of fields written one by one may call
FieldCalls ==
    {Call(op, <<>>, 0) : op \in {"ReadIndex", "ReadSizeField", "ReadStringField",
                                  "ReadBoolField", "ReadIntField", "ReadFloatField"}}
    \cup {Call("ReadFixedStringField", <<>>, 2)}
    \cup {Call("Discard", <<>>, k) : k \in {-1, 1, 5}}

\* the calls the consumer may make next; a panic has ended it
NextCalls ==
    IF ~opened \/ ret.err = ErrPanic THEN {}
    ELSE IF pc <= Len(prog)
    THEN (IF IsSkipped(prog[pc], out) THEN {} ELSE {prog[pc]})
    ELSE IF cons.kind = "free" /\ pc <= Len(prog) + MaxFreeSteps THEN FreeCalls
    ELSE IF cons.kind = "fields" /\ pc <= MaxFieldReads THEN FieldCalls
    ELSE {}

\* The slice a reader keeps in f.at is the one its caller passed.  When
\* both readers keep the caller's slice p, what a call of the first writes
\* into its backing array shows in the second:
\*    at := f.at[:len(f.at)-1]; at = append(at, Top)
\* of AdvanceToNextElement without names writes Top over the last name in
\* place.
PeerAfter(c, r) ==
    IF alias = {1, 2} /\ c.op = "AdvanceToNextElement" /\ c.path = <<>>
                      /\ r.err = ErrNone /\ Len(at) >= 1
    THEN [peer EXCEPT !.at = [peer.at EXCEPT ![Len(at)] = Top]]
    ELSE peer

\* f.at = fieldNames  of AdvanceTo, and of AdvanceToNextElement with names,
\* makes f.at the slice of this call: the slice p when the caller has two
\* readers, a slice made for the call otherwise
AliasAfter(c, r) ==
    IF c.op = "AdvanceTo" /\ r.err = ErrNone
    THEN (IF cons.kind = "two" THEN alias \cup {1} ELSE alias \ {1})
    ELSE IF c.op = "AdvanceToNextElement" /\ c.path # <<>> /\ r.err = ErrNone
    THEN alias \ {1}
    ELSE alias

\* the consumer makes the call c on its reader
Makes(c, r) ==
    /\ peer' = PeerAfter(c, r)
    /\ alias' = AliasAfter(c, r)
    /\ pos' = r.pos
    /\ index' = r.index
    /\ at' = r.at
    /\ indexVersion' = r.indexVersion
    /\ off' = r.off
    /\ ret' = OutOf(r)
    /\ call' = c
    /\ out' = Append(out, OutOf(r))
    /\ pc' = pc + 1
    /\ UNCHANGED <<wvars, opened, cons, prog>>

CallReadIndex ==
    \E c \in NextCalls : c.op = "ReadIndex" /\ Makes(c, ReadIndex(R, sink))

CallReadSizeField ==
    \E c \in NextCalls : c.op = "ReadSizeField" /\ Makes(c, ReadSizeField(R, sink))

CallReadStringField ==
    \E c \in NextCalls : c.op = "ReadStringField" /\ Makes(c, ReadStringField(R, sink))

CallReadFixedStringField ==
    \E c \in NextCalls :
        c.op = "ReadFixedStringField" /\ Makes(c, ReadFixedStringField(R, sink, c.k))

CallReadBoolField ==
    \E c \in NextCalls : c.op = "ReadBoolField" /\ Makes(c, ReadBoolField(R, sink))

CallReadIntField ==
    \E c \in NextCalls : c.op = "ReadIntField" /\ Makes(c, ReadIntField(R, sink))

CallReadFloatField ==
    \E c \in NextCalls : c.op = "ReadFloatField" /\ Makes(c, ReadFloatField(R, sink))

CallDiscard ==
    \E c \in NextCalls : c.op = "Discard" /\ Makes(c, Discard(R, sink, c.k))

CallAdvanceTo ==
    \E c \in NextCalls : c.op = "AdvanceTo" /\ Makes(c, AdvanceTo(R, sink, c.path))

CallAdvanceToNextElement ==
    \E c \in NextCalls :
        c.op = "AdvanceToNextElement" /\ Makes(c, AdvanceToNextElement(R, sink, c.path))

CallSetIndex ==
    \E c \in NextCalls : c.op = "SetIndex" /\ Makes(c, SetIndex(R, SetIndexArg(c.k)))

\* the consumer leaves out a call that hangs on a probe that found no field
LeaveOut ==
    /\ opened
    /\ ret.err # ErrPanic
    /\ pc <= Len(prog)
    /\ IsSkipped(prog[pc], out)
    /\ out' = Append(out, NotCalled)
    /\ pc' = pc + 1
    /\ UNCHANGED <<wvars, rvars, pvars, opened, cons, prog, call>>

Next ==
    \/ \E i \in 1..Len(Inputs) : WriteObject(i)
    \/ \E c \in Consumers : OpenReader(c)
    \/ CallReadIndex
    \/ CallReadSizeField
    \/ CallReadStringField
    \/ CallReadFixedStringField
    \/ CallReadBoolField
    \/ CallReadIntField
    \/ CallReadFloatField
    \/ CallDiscard
    \/ CallAdvanceTo
    \/ CallAdvanceToNextElement
    \/ CallSetIndex
    \/ LeaveOut

Spec == Init /\ [][Next]_vars

\* the consumer has made all its calls
Done == opened /\ pc > Len(prog) /\ Len(out) = Len(prog)

-----------------------------------------------------------------------------
(* The writer's claims.  They are stated over the sink and the log of the  *)
(* calls, in the states before a reader is opened (the sink does not       *)
(* change afterwards).                                                     *)

Calls == 1..Len(wLog)
InputOf(k) == Inputs[wLog[k].in]
Succeeded(k) == wLog[k].err = ErrNone
IsStruct(k) == InputOf(k).sch # 0

\* the bytes of the sink from offset a up to offset b
Slice(a, b) == SubSeq(sink, a + 1, b)

\* the offset at which call k wrote its record frame
FrameStart(k) == wLog[k].start + wLog[k].head

\* the magic and index a writer of this version emits for the type of call k
IndexBlock(k) ==
    (IF wVersion > 1 THEN IndexVersion2 ELSE <<>>)
    \o PutUint32(Len(writeIndexObject(wVersion, InputOf(k).ty, EmptyTag).buf) + sizeFieldLen)
    \o writeIndexObject(wVersion, InputOf(k).ty, EmptyTag).buf

\* C5: in a sequence of WriteObject calls with struct values the index
\* (after the magic for version 2) is written once, by the first call and
\* ahead of its record frame; every later call writes a record frame only.
C5_IndexWrittenOnce ==
    (~opened /\ \A k \in Calls : IsStruct(k)) =>
        \A k \in Calls :
            /\ k = 1 => Slice(wLog[k].start, FrameStart(k)) = IndexBlock(k)
            /\ k > 1 => wLog[k].head = 0

\* the body of the record of call k as writeObject serializes it
BodyOf(k) == writeObject(InputOf(k).ty, InputOf(k).v, EmptyTag).buf

\* call k wrote exactly one record frame: the size, then the body
FrameOnly(k) ==
    Slice(wLog[k].start, wLog[k].end) = PutUint32(Len(BodyOf(k)) + sizeFieldLen) \o BodyOf(k)

\* C6: an index is emitted only when the object counter is 0 and the value
\* is a struct; a top-level string or array gives a frame without magic and
\* index under both versions, and so does every value written after a
\* successful WriteObject.
C6_IndexOnlyForFirstStruct ==
    ~opened =>
        \A k \in Calls :
            /\ wLog[k].head > 0 => wLog[k].before = 0 /\ IsStruct(k)
            /\ (Succeeded(k) /\ ~IsStruct(k)) => FrameOnly(k)
            /\ (Succeeded(k) /\ wLog[k].before > 0) => FrameOnly(k)

C6_Witness ==
    /\ ~opened
    /\ wVersion = Version2
    /\ Len(wLog) = 2
    /\ Succeeded(1) /\ ~IsStruct(1) /\ FrameOnly(1)
    /\ Succeeded(2) /\ IsStruct(2) /\ FrameOnly(2)

\* a reader placed on offset a of the sink
ReaderAt(a) == [NewReader EXCEPT !.off = a, !.pos = a]

\* a reader that reads the size at offset a and discards the rest of what
\* the size announces
SkipFrame(a) ==
    Discard(ReadSizeField(ReaderAt(a), sink), sink,
            ReadSizeField(ReaderAt(a), sink).n - sizeFieldLen)

\* C7: every record frame starts with a 4-byte little-endian size that is
\* 4 plus the length of the serialized body; a reader that consumes that
\* many bytes from the start of the frame stands at the start of the next
\* frame or at the end of the stream.
C7_FrameSize ==
    ~opened =>
        \A k \in Calls : Succeeded(k) =>
            /\ Uint32(Slice(FrameStart(k), FrameStart(k) + sizeFieldLen))
                  = sizeFieldLen + Len(BodyOf(k))
            /\ Slice(FrameStart(k) + sizeFieldLen, wLog[k].end) = BodyOf(k)
            /\ SkipFrame(FrameStart(k)).err = ErrNone
            /\ SkipFrame(FrameStart(k)).off = wLog[k].end
            /\ \/ wLog[k].end = Len(sink)
               \/ k < Len(wLog) /\ wLog[k].end = wLog[k + 1].start

C7_Witness ==
    /\ ~opened
    /\ Len(wLog) = 2
    /\ Succeeded(1) /\ IsStruct(1) /\ wLog[1].head > 0
    /\ Succeeded(2) /\ SkipFrame(FrameStart(1)).off = FrameStart(2)
    /\ SkipFrame(FrameStart(2)).off = Len(sink)


\* The arrays of a value, outermost first, each with the tag writeArray
\* is handed for it: [ty, v, t].
RECURSIVE ArraysIn(_, _, _)
RECURSIVE ArraysInFields(_, _, _, _)
RECURSIVE ArraysInElems(_, _, _, _)

ArraysIn(ty, v, t) ==
    CASE ty.kind = "slice" -> <<[ty |-> ty, v |-> v, t |-> t]>> \o ArraysInElems(ty, v, t, 1)
      [] ty.kind = "struct" -> ArraysInFields(ty, v, t, 1)
      [] OTHER -> <<>>

ArraysInElems(ty, v, t, i) ==
    IF i > Len(v) THEN <<>>
    ELSE ArraysIn(ty.elem, v[i], t) \o ArraysInElems(ty, v, t, i + 1)

ArraysInFields(ty, v, t, i) ==
    IF i > Len(ty.fields) THEN <<>>
    ELSE (IF Written(ty.fields[i])
          THEN ArraysIn(ty.fields[i].type, v[i], getTagInfo(ty, i, t, NilVal).t)
          ELSE <<>>)
         \o ArraysInFields(ty, v, t, i + 1)

\* the arrays of the value of call k
ArraysOf(k) == ArraysIn(InputOf(k).ty, InputOf(k).v, EmptyTag)

\* the number of bytes of the key of an array indexed by the field `key`
\* of its elements; none when the field is neither a string nor an integer
KeySize(elem, key) ==
    IF elem.fields[FieldPos(elem, key, 1)].type.kind = "string"
    THEN elem.fields[FieldPos(elem, key, 1)].raw.fixed
    ELSE IF elem.fields[FieldPos(elem, key, 1)].type.kind = "int" THEN sizeInt64
    ELSE 0

\* the bytes of element i of the array a as writeObject serializes them
ElemBytes(a, i) == writeObject(a.ty.elem, a.v[i], a.t).buf

RECURSIVE SumElemBytes(_, _)
SumElemBytes(a, i) ==
    IF i > Len(a.v) THEN 0 ELSE Len(ElemBytes(a, i)) + SumElemBytes(a, i + 1)

IndexBytes(a) ==
    IF a.t.index # <<>> THEN Len(a.v) * (KeySize(a.ty.elem, a.t.index) + sizeFieldLen)
    ELSE 0

\* what writeArray returned for the array a is sized as claimed
ArraySized(a, w) ==
    w.err = ErrNone =>
        /\ w.sz = sizeFieldLen + sizeFieldLen + IndexBytes(a) + SumElemBytes(a, 1)
        /\ Uint32(SubSeq(w.buf, 1, sizeFieldLen)) = w.sz
        /\ Uint32(SubSeq(w.buf, sizeFieldLen + 1, 2 * sizeFieldLen)) = Len(a.v)
        /\ Len(w.buf) = w.sz
        /\ Len(a.v) = 0 => w.buf = PutUint32(8) \o PutUint32(0)

\* C8: every array writeArray serializes declares
\* total_size = 4 + 4 + index_bytes + the sum of its elements' bytes, with
\* index_bytes = count * (key size + 4) when indexed and 0 otherwise; that
\* is the number of bytes the array occupies; an empty array, indexed or
\* not, is the 8 bytes [size = 8][count = 0].
C8_ArraySize ==
    ~opened =>
        \A k \in Calls : \A j \in 1..Len(ArraysOf(k)) :
            ArraySized(ArraysOf(k)[j], writeArray(ArraysOf(k)[j].ty, ArraysOf(k)[j].v,
                                                  ArraysOf(k)[j].t))

C8_Witness ==
    /\ ~opened
    /\ \E k \in Calls :
        /\ Succeeded(k)
        /\ \E j \in 1..Len(ArraysOf(k)) :
              ArraysOf(k)[j].t.index # <<>> /\ Len(ArraysOf(k)[j].v) = 2
        /\ \E j \in 1..Len(ArraysOf(k)) :
              ArraysOf(k)[j].t.index = <<>> /\ Len(ArraysOf(k)[j].v) = 0
        /\ \E j \in 1..Len(ArraysOf(k)) :
              ArraysOf(k)[j].t.index = <<>> /\ Len(ArraysOf(k)[j].v) = 2

\* the key of element i of the indexed array a, as the bytes of the table
KeyBytes(a, i) ==
    IF a.ty.elem.fields[FieldPos(a.ty.elem, a.t.index, 1)].type.kind = "string"
    THEN a.v[i][FieldPos(a.ty.elem, a.t.index, 1)]
    ELSE WriteInt64Field(a.v[i][FieldPos(a.ty.elem, a.t.index, 1)]).buf

\* the offset in the array's bytes of entry i of the index table
EntryAt(a, i) ==
    2 * sizeFieldLen + (i - 1) * (KeySize(a.ty.elem, a.t.index) + sizeFieldLen)

\* the elem_size of entry i of the table in the bytes buf
ElemSize(a, buf, i) ==
    Uint32(SubSeq(buf, EntryAt(a, i) + KeySize(a.ty.elem, a.t.index) + 1, EntryAt(a, i + 1)))

\* the offset of element i, reached from the end of the table by skipping
\* the elem_size of every element before it
RECURSIVE ElemAt(_, _, _)
ElemAt(a, buf, i) ==
    IF i = 1 THEN EntryAt(a, Len(a.v) + 1)
    ELSE ElemAt(a, buf, i - 1) + ElemSize(a, buf, i - 1)

\* the index table of the array a in the bytes writeArray returned
TableInOrder(a, w) ==
    (w.err = ErrNone /\ a.t.index # <<>>) =>
        /\ \A i \in 1..Len(a.v) :
            /\ SubSeq(w.buf, EntryAt(a, i) + 1,
                      EntryAt(a, i) + KeySize(a.ty.elem, a.t.index)) = KeyBytes(a, i)
            /\ ElemSize(a, w.buf, i) = Len(ElemBytes(a, i))
            /\ SubSeq(w.buf, ElemAt(a, w.buf, i) + 1, ElemAt(a, w.buf, i + 1))
                  = ElemBytes(a, i)
        /\ ElemAt(a, w.buf, Len(a.v) + 1) = Len(w.buf)

\* C9: the index table of an indexed array has one (key, elem_size) entry
\* per element in element order: entry i holds the key of element i and
\* the byte length of element i's payload, so skipping elem_size bytes from
\* the start of element i reaches the start of element i+1.
C9_IndexTable ==
    ~opened =>
        \A k \in Calls : \A j \in 1..Len(ArraysOf(k)) :
            TableInOrder(ArraysOf(k)[j], writeArray(ArraysOf(k)[j].ty, ArraysOf(k)[j].v,
                                                    ArraysOf(k)[j].t))

C9_Witness ==
    /\ ~opened
    /\ \E k \in Calls :
        /\ Succeeded(k)
        /\ \E j \in 1..Len(ArraysOf(k)) :
              /\ ArraysOf(k)[j].t.index = nD
              /\ Len(ArraysOf(k)[j].v) = 2
              /\ Len(ElemBytes(ArraysOf(k)[j], 1)) # Len(ElemBytes(ArraysOf(k)[j], 2))
    /\ \E k \in Calls : \E j \in 1..Len(ArraysOf(k)) :
              ArraysOf(k)[j].t.index = nE /\ Len(ArraysOf(k)[j].v) = 2

-----------------------------------------------------------------------------
(* The reader's claims.  They are stated over what the consumer's calls    *)
(* returned, in the states in which the consumer has made all its calls.   *)

\* the call c returned what the consumer expects of it
Met(c, o) ==
    CASE c.chk = "val" -> o.err = ErrNone /\ o.s = c.s /\ o.b = c.b /\ o.n = c.n
                         /\ o.f = c.f
      [] c.chk = "ok" -> o.err = ErrNone
      [] c.chk = "nosuch" -> o.err = ErrNoSuchField
      [] OTHER -> TRUE

\* the end of the first record frame of the sink
FrameEnd == wLog[1].end

\* C10: reading the frame written by WriteObject field by field in
\* declaration order with the matching Read*Field calls (the size, the count
\* and the index table of an array read as sizes and keys) returns every
\* written value and leaves Pos() at the end of the frame.
C10_RoundTrip ==
    (Done /\ cons.kind = "seq") =>
        /\ \A i \in 1..Len(prog) : out[i].err = ErrNone /\ Met(prog[i], out[i])
        /\ pos = FrameEnd
        /\ off = FrameEnd

C10_Witness ==
    /\ Done /\ cons.kind = "seq"
    /\ First.sch = 5
    /\ \E i \in 1..Len(prog) : prog[i].op = "ReadIntField" /\ out[i].n < 0
    /\ \E i \in 1..Len(prog) : prog[i].op = "ReadFixedStringField" /\ out[i].s = d10
    /\ pos = Len(sink)

\* the number of the first call of the consumer p that reads the field fld
RECURSIVE CallOf(_, _, _)
CallOf(p, fld, i) ==
    IF i > Len(p) THEN 0
    ELSE IF p[i].fld = fld THEN i
    ELSE CallOf(p, fld, i + 1)

\* what the reader that reads every field in order observes for the field
Observed(seq, fld) ==
    Run(seq, 1, NewReader, sink, <<>>).out[CallOf(seq, fld, 1)]

\* C1: a reader that performs ReadIndex; AdvanceTo(p1); read p1;
\* AdvanceTo(p2); read p2 for two paths p1 < p2 of the index (paths into an
\* array's elements included) observes the two values that a reader
\* observes which reads every field of the record in order.
C1_SkipFidelity ==
    (Done /\ cons.kind = "skip") =>
        /\ out[3].err = ErrNone
        /\ out[4] = Observed(SeqProg(First.ty, First.v), FirstPaths[cons.i1])
        /\ out[5].err = ErrNone
        /\ out[6] = Observed(SeqProg(First.ty, First.v), FirstPaths[cons.i2])

\* every field written under the struct type small is a field of big, the
\* fields of the elements of its arrays of structs included
RECURSIVE Covers(_, _)
Covers(big, small) ==
    \A i \in 1..Len(small.fields) :
        LET f == small.fields[i]
            j == FieldPos(big, f.raw.name, 1)
        IN  Written(f) =>
              /\ j > 0
              /\ Written(big.fields[j])
              /\ big.fields[j].type.kind = f.type.kind
              /\ (f.type.kind = "slice" /\ f.type.elem.kind = "struct")
                    => Covers(big.fields[j].type.elem, f.type.elem)

\* the value of type cty that holds what the value v of type wty holds in
\* the fields of cty
RECURSIVE Project(_, _, _)
Project(cty, wty, v) ==
    CASE cty.kind = "struct" ->
            [i \in 1..Len(cty.fields) |->
                IF cty.fields[i].raw.ignore THEN sNone
                ELSE Project(cty.fields[i].type,
                             wty.fields[FieldPos(wty, cty.fields[i].raw.name, 1)].type,
                             v[FieldPos(wty, cty.fields[i].raw.name, 1)])]
      [] cty.kind = "slice" -> [e \in 1..Len(v) |-> Project(cty.elem, wty.elem, v[e])]
      [] OTHER -> v

\* the sink of a writer of the same version that is given the records of
\* the log from the k-th on under the consumer's schema C
RECURSIVE SinkUnder(_, _, _)
SinkUnder(C, k, n) ==
    IF k > Len(wLog) THEN <<>>
    ELSE LET w == WriteObjectOp(wVersion, n, C,
                                Project(C, Inputs[wLog[k].in].ty, Inputs[wLog[k].in].v))
         IN  w.out \o SinkUnder(C, k + 1, w.pos)

\* the consumer compiled with C on that sink
UnderOwnSchema(C) ==
    Run(NavProg(C, C, Project(C, First.ty, First.v)), 1, NewReader, SinkUnder(C, 1, 0), <<>>)

\* the end of the first record frame of that sink
OwnFrameEnd(C) ==
    Len(WriteObjectOp(wVersion, 0, C, Project(C, First.ty, First.v)).out)

\* two runs of a consumer returned the same errors and, from the calls that
\* read a value of a field, a key or a length, the same values (the sizes in
\* bytes that the other calls read differ with the schema)
SameValues(p, o1, o2) ==
    /\ Len(o1) = Len(o2)
    /\ \A i \in 1..Len(o1) :
          /\ o1[i].err = o2[i].err
          /\ p[i].chk = "val" => o1[i] = o2[i]

\* C2: a consumer compiled with S that navigates a stream written under a
\* schema that only adds fields to S (AdvanceTo for each of its fields, the
\* headers and index tables of arrays read by itself, AdvanceToNextElement
\* after every array element and at the end of the record) gets from every
\* call what it gets on the stream that holds the same values written under
\* S, and on both streams its reader ends at the end of the record's frame.
C2_ForwardCompat ==
    (Done /\ cons.kind = "nav" /\ cons.cs # First.sch
          /\ Covers(First.ty, Schemas[cons.cs])) =>
        /\ SameValues(prog, out, UnderOwnSchema(Schemas[cons.cs]).out)
        /\ pos = FrameEnd
        /\ UnderOwnSchema(Schemas[cons.cs]).r.pos = OwnFrameEnd(Schemas[cons.cs])

\* C3: on a stream written under S, a consumer compiled with a schema that
\* adds fields to S gets ErrNoSuchField from the AdvanceTo of every added
\* field, no error from the AdvanceTo of every field of S, and the written
\* value from every read of a field of S.
C3_BackwardCompat ==
    (Done /\ cons.kind = "nav" /\ Covers(Schemas[cons.cs], First.ty)) =>
        \A i \in 1..Len(prog) :
            prog[i].chk \in {"nosuch", "ok", "val"} => Met(prog[i], out[i])

C3_Witness ==
    /\ Done /\ cons.kind = "nav"
    /\ cons.cs = 2 /\ First.sch = 1 /\ Len(First.v[4]) = 2
    /\ \E i \in 1..Len(prog) :
          prog[i].path = <<nL, nU>> /\ out[i].err = ErrNoSuchField
    /\ \E i, j \in 1..Len(prog) :
          /\ i < j
          /\ prog[i].path = <<nQ>> /\ out[i].err = ErrNoSuchField
          /\ prog[j].fld = <<nL, nN>> /\ out[j].err = ErrNone /\ out[j].s = sBC
    /\ \E i \in 1..Len(prog) : prog[i].fld = <<nG>> /\ out[i].err = ErrNone /\ out[i].f = FloatPlain

\* the index holds the path: entry by entry a field of that name
RECURSIVE HasPath(_, _, _)
HasPath(ix, path, k) ==
    \/ k > Len(path)
    \/ \E i \in 1..Len(ix) :
          ix[i].FieldName = path[k] /\ HasPath(ix[i].Subfields, path, k + 1)

\* C4: AdvanceTo with a path that the index does not hold returns
\* ErrNoSuchField, takes no byte from the source and leaves Pos() and the
\* position `at` of the reader as they were.
C4_MissingTarget ==
    [][(CallAdvanceTo /\ ~HasPath(index, call'.path, 1)) =>
          /\ ret'.err = ErrNoSuchField
          /\ off' = off
          /\ pos' = pos
          /\ at' = at
          /\ index' = index]_vars

C4_Witness ==
    /\ call.op = "AdvanceTo"
    /\ call.path = <<nL, nNotHere>>
    /\ ~HasPath(index, call.path, 1)
    /\ ret.err = ErrNoSuchField
    /\ Len(index) > 0
    /\ Len(at) = 2
    /\ pos > 0

-----------------------------------------------------------------------------
(* The index at the head of the stream *)

\* the consumer has made its first call, ReadIndex, and no other
IndexJustRead == opened /\ pc = 2 /\ call.op = "ReadIndex"

\* the sink starts with the magic of version 2
StartsWithMagic == Len(sink) >= 3 /\ SubSeq(sink, 1, 3) = IndexVersion2

\* the size field of the index: the four bytes after the magic, if any
DeclaredIndexSize ==
    IF StartsWithMagic THEN Uint32(SubSeq(sink, 4, 7)) ELSE Uint32(SubSeq(sink, 1, 4))

\* C11 as stated: ReadIndex advances the cursor by the declared size of the
\* index, on streams of version 1 and of version 2 alike.
C11_AdvancesByDeclaredSize ==
    IndexJustRead => (ret.err = ErrNone /\ pos = DeclaredIndexSize)

\* C11: on a well-formed stream ReadIndex advances the cursor by the
\* declared size of the index, which counts its own four bytes, and on a
\* stream of version 2 by the three bytes of the magic as well.
C11_AdvancesBySizeAndMagic ==
    IndexJustRead =>
        /\ ret.err = ErrNone
        /\ pos = DeclaredIndexSize + (IF StartsWithMagic THEN Len(IndexVersion2) ELSE 0)
        /\ off = pos

C11_Witness ==
    /\ IndexJustRead
    /\ wVersion = Version2 /\ StartsWithMagic
    /\ Len(index) = 5
    /\ pos = DeclaredIndexSize + 3
    /\ pos = wLog[1].start + wLog[1].head

\* the kind of the key of an array indexed by the field `key`
\* of its elements, as reflect and the struct tag give them
KeyKind(elem, key) ==
    IF elem.fields[FieldPos(elem, key, 1)].type.kind = "string" THEN KindString
    ELSE IF elem.fields[FieldPos(elem, key, 1)].type.kind = "int" THEN KindInt64
    ELSE 0

\* the index entry of a field that is no array
ScalarEntry(raw, code) ==
    IndexEntry(raw.name, code, IF code = FieldTypeFixedStr THEN raw.fixed ELSE 0,
               FALSE, 0, 0, 0, <<>>)

RECURSIVE ExpectedEntries(_, _, _)

\* the index entry a field with struct tag raw and type ty stands for
ExpectedEntry(version, raw, ty) ==
    CASE ty.kind = "string" ->
             ScalarEntry(raw, IF raw.fixed > 0 THEN FieldTypeFixedStr ELSE FieldTypeVarStr)
      [] ty.kind = "bool" -> ScalarEntry(raw, FieldTypeBool)
      [] ty.kind = "int" -> ScalarEntry(raw, FieldTypeInt64)
      [] ty.kind = "float64" -> ScalarEntry(raw, FieldTypeFloat)
      [] ty.kind = "slice" ->
             IndexEntry(raw.name, FieldTypeArray, 0,
                        version >= Version2 /\ raw.index # <<>>,
                        IF version >= Version2 /\ raw.index # <<>>
                        THEN KeySize(ty.elem, raw.index) ELSE 0,
                        IF version >= Version2 /\ raw.index # <<>>
                        THEN KeyKind(ty.elem, raw.index) ELSE 0,
                        IF version >= Version2 THEN KindOf(ty.elem) ELSE 0,
                        IF ty.elem.kind = "struct"
                        THEN ExpectedEntries(version, ty.elem, 1) ELSE <<>>)

\* the tree of a struct type: its fields in declaration order, those left
\* out that the tag ignores or skips
ExpectedEntries(version, ty, i) ==
    IF i > Len(ty.fields) THEN <<>>
    ELSE (IF ty.fields[i].raw.ignore \/ ty.fields[i].raw.skip THEN <<>>
          ELSE <<ExpectedEntry(version, ty.fields[i].raw, ty.fields[i].type)>>)
         \o ExpectedEntries(version, ty, i + 1)

ExpectedTree(version, ty) == ExpectedEntries(version, ty, 1)

\* some array entry of the tree carries metadata of version 2
RECURSIVE HasArrayMetadata(_)
HasArrayMetadata(ix) ==
    \E i \in 1..Len(ix) :
        \/ ix[i].Indexed \/ ix[i].IndexType # 0 \/ ix[i].IndexSize # 0
        \/ ix[i].SubfieldType # 0
        \/ HasArrayMetadata(ix[i].Subfields)

\* C12: ReadIndex takes the stream for version 2 exactly when it starts
\* with the magic; either way it returns the tree of the schema the writer
\* wrote the index for, the array metadata filled in only under version 2,
\* and leaves the cursor on the first byte of the first record frame.
C12_VersionDetection ==
    IndexJustRead =>
        /\ ret.err = ErrNone
        /\ indexVersion = (IF StartsWithMagic THEN 2 ELSE 1)
        /\ indexVersion = wVersion
        /\ index = ExpectedTree(wVersion, First.ty)
        /\ (indexVersion = 1 => ~HasArrayMetadata(index))
        /\ pos = FrameStart(1) /\ off = pos

\* an index of version 1 and one of version 2 with arrays, one of them
\* indexed, one holding an array itself
C12_Witness ==
    /\ IndexJustRead
    /\ ret.err = ErrNone
    /\ \/ wVersion = Version1 /\ indexVersion = 1 /\ First.sch = 5
          /\ \E i \in 1..Len(index) : index[i].FieldType = FieldTypeArray
       \/ wVersion = Version2 /\ indexVersion = 2 /\ First.sch = 5
          /\ HasArrayMetadata(index)
          /\ \E i \in 1..Len(index) :
                 index[i].Indexed /\ index[i].IndexType = KindInt64
                 /\ index[i].IndexSize = sizeInt64

-----------------------------------------------------------------------------
(* Fields written one by one: a caller drives the Write*Field methods of   *)
(* the writer itself, handing each the position the one before returned,   *)
(* and a reader is then pointed at the bytes.                              *)

\* a call of a Write*Field method: the method, its integer, string and
\* boolean arguments; f is the float of WriteFloatField
FieldWrite(op, k, s, b) == [op |-> op, k |-> k, s |-> s, b |-> b, f |-> FloatZero]

\* the size whose first three bytes are those of the magic
MagicSize == Uint32(IndexVersion2 \o <<0>>)

FieldWrites ==
    {FieldWrite("WriteSizeField", k, <<>>, FALSE) : k \in {2, MagicSize}}
    \cup {FieldWrite("WriteFixedStringField", k, s, FALSE) :
             k \in {0, 2}, s \in {sNone, sBC}}
    \cup {FieldWrite("WriteStringField", 0, sBC, FALSE)}
    \cup {FieldWrite("WriteBoolField", 0, <<>>, b) : b \in BOOLEAN}
    \cup {FieldWrite("WriteInt64Field", -3, <<>>, FALSE)}

\* the calls of WriteFloatField
FloatWrites ==
    {[FieldWrite("WriteFloatField", 0, <<>>, FALSE) EXCEPT !.f = FloatPlain]}

\* what the method does to the buffer and the count it adds to pos
WriteFieldOp(f) ==
    CASE f.op = "WriteSizeField" -> WriteSizeField(f.k)
      [] f.op = "WriteFixedStringField" -> WriteFixedStringField(f.k, f.s)
      [] f.op = "WriteStringField" -> WriteStringField(f.s)
      [] f.op = "WriteBoolField" -> WriteBoolField(f.b)
      [] f.op = "WriteInt64Field" -> WriteInt64Field(f.k)
      [] f.op = "WriteFloatField" -> WriteFloatField(f.f)

\* the buffer, the caller's position and the log after the call f that did
\* w: a method returns pos + sz, and 0 with an error
WroteField(f, w) ==
    /\ sink' = sink \o w.buf
    /\ wpos' = IF w.err = ErrNone THEN wpos + w.sz ELSE wpos
    /\ wLog' = Append(wLog,
           [in |-> f, err |-> w.err,
            n |-> IF w.err = ErrNone THEN wpos + w.sz ELSE 0, before |-> wpos,
            start |-> Len(sink), end |-> Len(sink) + Len(w.buf), head |-> 0])

\* w.Write*Field(pos, ..., buf)
WriteField(f) ==
    /\ ~opened
    /\ Len(wLog) < MaxFields
    /\ WroteField(f, WriteFieldOp(f))
    /\ UNCHANGED <<wVersion, opened, cons, prog, pc, call, out,
                   pos, index, at, indexVersion, off, ret, peer, alias>>

\* r := NewReader() over the buffer as it stands
OpenFields ==
    /\ ~opened
    /\ opened' = TRUE
    /\ cons' = Consumer("fields", 0, 0, 0)
    /\ prog' = <<>>
    /\ UNCHANGED <<wvars, rvars, pvars, pc, call, out>>

InitFields == Init /\ wVersion = Version2

NextFields ==
    \/ \E f \in FieldWrites \cup FloatWrites : WriteField(f)
    \/ OpenFields
    \/ CallReadIndex
    \/ CallReadSizeField
    \/ CallReadStringField
    \/ CallReadFixedStringField
    \/ CallReadBoolField
    \/ CallReadIntField
    \/ CallReadFloatField
    \/ CallDiscard

SpecFields == InitFields /\ [][NextFields]_vars

\* the buffer starts with the size prefix of an index of version 1 whose
\* size is below 2^24, and the reader's first call was ReadIndex
SizePrefixRead ==
    /\ IndexJustRead
    /\ Len(wLog) >= 1
    /\ wLog[1].in.op = "WriteSizeField"
    /\ wLog[1].err = ErrNone
    /\ wLog[1].in.k < 2^24

\* C13: a stream of version 1 whose index size is below 2^24 never starts
\* with the three bytes of the magic, so ReadIndex never takes it for a
\* stream of version 2.
C13_NoV1TakenForV2 ==
    SizePrefixRead => (~StartsWithMagic /\ indexVersion = 1)

\* the reader's last call was a ReadBoolField that succeeded; the byte it
\* read is the one before the offset
BoolJustRead == opened /\ call.op = "ReadBoolField" /\ ret.err = ErrNone

\* C14: ReadBoolField returns true for every byte that is not zero and
\* false only for the byte 0.
C14_NonZeroIsTrue ==
    BoolJustRead => (ret.b <=> sink[off] # 0)

-----------------------------------------------------------------------------
(* Integers of 64 bits.  An int64 beyond the range of the integers above   *)
(* is kept as its 64 bits in two's complement, the least significant       *)
(* first; encoding/binary works on them as the code does on a uint64.      *)

\* bit i (from 0) of the int64 that holds the integer x, |x| < 2^31
Bit(x, i) == IF i <= 30 THEN (x \div 2^i) % 2 ELSE IF x < 0 THEN 1 ELSE 0

Int64Bits(x) == [i \in 1..64 |-> Bit(x, i - 1)]

\* math.MaxInt64 and math.MinInt64
MaxInt64 == [i \in 1..64 |-> IF i = 64 THEN 0 ELSE 1]
MinInt64 == [i \in 1..64 |-> IF i = 64 THEN 1 ELSE 0]

\* 2^k, and the int64 of which every bit but bit k is set
Pow2(k) == [i \in 1..64 |-> IF i = k + 1 THEN 1 ELSE 0]
NotPow2(k) == [i \in 1..64 |-> IF i = k + 1 THEN 0 ELSE 1]

\* binary.PutVarint, the zig-zag: ux := uint64(x) << 1; if x < 0 { ux = ^ux }
ZigZag(x) == [i \in 1..64 |-> IF i = 1 THEN x[64] ELSE (x[i - 1] + x[64]) % 2]

\* byte(x >> 7g) & 0x7f
Group(ux, g) ==
    LET b(j) == IF 7 * g + j <= 64 THEN ux[7 * g + j] ELSE 0
    IN  b(1) + 2 * b(2) + 4 * b(3) + 8 * b(4) + 16 * b(5) + 32 * b(6) + 64 * b(7)

RECURSIVE PutUvarint64NineFrom(_, _)
\* binary.PutUvarint with a fault: the loop stops after nine bytes
PutUvarint64NineFrom(ux, g) ==
    IF g < 8 /\ \E i \in (7 * (g + 1) + 1)..64 : ux[i] = 1
    THEN <<Group(ux, g) + 128>> \o PutUvarint64NineFrom(ux, g + 1)
    ELSE <<Group(ux, g)>>

RECURSIVE PutUvarint64From(_, _)
\* binary.PutUvarint: for x >= 0x80 { buf[i] = byte(x) | 0x80; x >>= 7; i++ };
\* buf[i] = byte(x)
PutUvarint64From(ux, g) ==
    IF \E i \in (7 * (g + 1) + 1)..64 : ux[i] = 1
    THEN <<Group(ux, g) + 128>> \o PutUvarint64From(ux, g + 1)
    ELSE <<Group(ux, g)>>

PutVarint64(x) == PutUvarint64From(ZigZag(x), 0)

\* WriteInt64Field of an int64 given by its bits
WriteInt64FieldBits(x) ==
    WOk(sizeInt64, PutVarint64(x) \o Zeros(sizeInt64 - Len(PutVarint64(x))))

\* the seven low bits of a byte
Bits7(b) == [j \in 1..7 |-> (b \div 2^(j - 1)) % 2]

\* the first 64 of the bits, zeros added where they are fewer
Trunc64(bits) == [i \in 1..64 |-> IF i <= Len(bits) THEN bits[i] ELSE 0]

RECURSIVE Uvarint64From(_, _, _)
\* binary.Uvarint: x |= uint64(b&0x7f) << s for every byte with the high bit
\* set, the first one without it ends the value; a tenth byte above 1 or an
\* eleventh byte is an overflow, a buffer that ends early gives 0
Uvarint64From(bs, i, bits) ==
    IF i > Len(bs) THEN [n |-> 0, ux |-> Trunc64(<<>>)]
    ELSE IF i - 1 = sizeInt64 THEN [n |-> -i, ux |-> Trunc64(<<>>)]
    ELSE IF bs[i] < 128
         THEN IF i - 1 = sizeInt64 - 1 /\ bs[i] > 1
              THEN [n |-> -i, ux |-> Trunc64(<<>>)]
              ELSE [n |-> i, ux |-> Trunc64(bits \o Bits7(bs[i]))]
         ELSE Uvarint64From(bs, i + 1, bits \o Bits7(bs[i] % 128))

\* binary.Varint: x := int64(ux >> 1); if ux&1 != 0 { x = ^x }
UnZigZag(ux) ==
    [i \in 1..64 |-> ((IF i = 64 THEN 0 ELSE ux[i + 1]) + ux[1]) % 2]

Varint64(bs) == UnZigZag(Uvarint64From(bs, 1, <<>>).ux)

\* ReadIntField, the int64 returned as its bits
ReadIntFieldBits(r, stream) ==
    IF Avail(r, stream) < sizeInt64 THEN Drained(r, stream)
    ELSE Returns(Consumed(r, sizeInt64), ErrNone, <<>>, FALSE,
                 Varint64(Bytes(r, stream, sizeInt64)))

\* the integers written, and the largest of the small ones
MaxInts == 2
MaxSmall == 3

Int64Samples ==
    {Int64Bits(x) : x \in -MaxSmall..MaxSmall}
    \cup {Int64Bits(x) : x \in {63, 64, -64, -65, 8191, 8192, -8192, -8193}}
    \cup {Pow2(k) : k \in {31, 32, 55, 56, 62}}
    \cup {NotPow2(k) : k \in {31, 32, 55, 56, 62}}
    \cup {MaxInt64, MinInt64}

\* w.WriteInt64Field(pos, x, buf)
WriteInt64(x) ==
    /\ ~opened
    /\ Len(wLog) < MaxInts
    /\ WroteField(FieldWrite("WriteInt64Field", x, <<>>, FALSE), WriteInt64FieldBits(x))
    /\ UNCHANGED <<wVersion, opened, cons, prog, pc, call, out,
                   pos, index, at, indexVersion, off, ret, peer, alias>>

\* r := NewReader() over the buffer as it stands
OpenInts ==
    /\ ~opened
    /\ opened' = TRUE
    /\ cons' = Consumer("ints", 0, 0, 0)
    /\ prog' = <<>>
    /\ UNCHANGED <<wvars, rvars, pvars, pc, call, out>>

\* r.ReadIntField(buf), once for every integer written and once more
CallReadIntFieldBits ==
    /\ opened
    /\ cons.kind = "ints"
    /\ pc <= Len(wLog) + 1
    /\ Makes(Call("ReadIntField", <<>>, 0), ReadIntFieldBits(R, sink))

NextInts ==
    \/ \E x \in Int64Samples : WriteInt64(x)
    \/ OpenInts
    \/ CallReadIntFieldBits

SpecInts == InitFields /\ [][NextInts]_vars

\* the bytes are a varint and zeros after it: some byte below 0x80 follows
\* bytes that are all 0x80 or above, and only zeros follow it
IsPaddedVarint(bs) ==
    \E m \in 1..Len(bs) :
        /\ bs[m] < 128
        /\ \A j \in 1..(m - 1) : bs[j] >= 128
        /\ \A j \in (m + 1)..Len(bs) : bs[j] = 0

\* the integer operators of the record writer and the operators on bits
\* agree where both are defined
SmallAgree ==
    \A x \in -MaxSmall..MaxSmall :
        /\ WriteInt64Field(x).buf = WriteInt64FieldBits(Int64Bits(x)).buf
        /\ Int64Bits(Varint(WriteInt64Field(x).buf)) = Varint64(WriteInt64Field(x).buf)

\* C15: WriteInt64Field emits exactly 10 bytes for every int64, the zig-zag
\* varint and zeros after it, and ReadIntField on those bytes returns the
\* value written, negative, smallest and largest values included, and
\* advances Pos() by 10.
C15_Int64RoundTrip ==
    /\ SmallAgree
    /\ \A k \in 1..Len(wLog) :
           /\ wLog[k].err = ErrNone
           /\ wLog[k].end = wLog[k].start + 10
           /\ wLog[k].n = wLog[k].before + 10
           /\ IsPaddedVarint(SubSeq(sink, wLog[k].start + 1, wLog[k].end))
    /\ \A k \in 1..Len(out) :
           k <= Len(wLog) => (out[k].err = ErrNone /\ out[k].n = wLog[k].in.k)
    /\ (opened /\ Len(out) <= Len(wLog)) => (pos = 10 * Len(out) /\ off = pos)

\* the smallest and the largest int64 written and read back
C15_Witness ==
    /\ Len(wLog) = 2 /\ Len(out) = 2
    /\ wLog[1].in.k = MinInt64 /\ wLog[2].in.k = MaxInt64
    /\ out[1].n = MinInt64 /\ out[2].n = MaxInt64
    /\ SubSeq(sink, 11, 20) = <<254, 255, 255, 255, 255, 255, 255, 255, 255, 1>>
    /\ pos = 20

-----------------------------------------------------------------------------
(* Fields written one by one: claims *)

\* C16: WriteFixedStringField(pos, n, val, sink) with len(val) # n returns
\* an error and writes no byte; with len(val) = n it writes the n bytes of
\* val and nothing before them, and returns pos + n.
C16_FixedString ==
    \A k \in 1..Len(wLog) :
        wLog[k].in.op = "WriteFixedStringField" =>
            IF Len(wLog[k].in.s) # wLog[k].in.k
            THEN wLog[k].err # ErrNone /\ wLog[k].end = wLog[k].start
            ELSE /\ wLog[k].err = ErrNone
                 /\ wLog[k].end = wLog[k].start + wLog[k].in.k
                 /\ SubSeq(sink, wLog[k].start + 1, wLog[k].end) = wLog[k].in.s
                 /\ wLog[k].n = wLog[k].before + wLog[k].in.k

\* a string of the wrong length refused, then one of the right length
\* written behind a field that moved the position
C16_Witness ==
    /\ Len(wLog) = 2
    /\ \/ /\ wLog[1].in = FieldWrite("WriteFixedStringField", 0, sBC, FALSE)
          /\ wLog[1].err = ErrSizeMismatch
          /\ wLog[2].in = FieldWrite("WriteFixedStringField", 2, sBC, FALSE)
          /\ sink = sBC
       \/ /\ wLog[1].in.op = "WriteStringField"
          /\ wLog[2].in = FieldWrite("WriteFixedStringField", 2, sBC, FALSE)
          /\ wLog[2].before = 6 /\ wLog[2].n = 8
          /\ SubSeq(sink, 7, 8) = sBC

-----------------------------------------------------------------------------
(* The reader's cursor *)

\* C17: whatever the reader is called with (ReadIndex, SetIndex, the
\* Read*Field methods, Discard, AdvanceTo, AdvanceToNextElement) and whether
\* the call succeeds or fails, Pos() never decreases.
C17_PosNeverDecreases == [][pos' >= pos]_vars

\* a call that failed and a SetIndex behind calls that moved the cursor
C17_Witness ==
    /\ opened /\ cons.kind = "free"
    /\ call.op = "SetIndex" /\ index = SetIndexArg(call.k)
    /\ pos > 0
    /\ \E k \in 1..Len(out) : out[k].err \notin {ErrNone, ErrSkipped}

\* the reader's call succeeded and moved the cursor and the source by k
Advanced(k) == ret'.err = ErrNone => (pos' = pos + k /\ off' = off + k)

\* C18: a scalar read that succeeds advances Pos() by the size on the wire
\* of what it read: ReadSizeField 4, ReadFixedStringField(n) n,
\* ReadStringField 4 and the length of the string, ReadBoolField 1,
\* ReadIntField 10, ReadFloatField 8; a Discard(n) that succeeds, by n.
C18_ReadAdvance ==
    [][/\ CallReadSizeField => Advanced(4)
       /\ CallReadFixedStringField =>
              (Advanced(call'.k) /\ (ret'.err = ErrNone => Len(ret'.s) = call'.k))
       /\ CallReadStringField => Advanced(4 + Len(ret'.s))
       /\ CallReadBoolField => Advanced(1)
       /\ CallReadIntField => Advanced(10)
       /\ CallReadFloatField => Advanced(8)
       /\ CallDiscard => Advanced(call'.k)]_vars

\* a string of two bytes read behind another field
C18_Witness ==
    /\ opened /\ cons.kind = "fields"
    /\ Len(out) = 2 /\ out[1].err = ErrNone
    /\ call.op = "ReadStringField" /\ ret.err = ErrNone
    /\ ret.s = sBC
    /\ pos = off /\ pos > 6

-----------------------------------------------------------------------------
(* Fields tagged skip *)

\* the paths of the fields tagged skip of a struct type: its own and those
\* of the elements of its arrays of structs
RECURSIVE SkipPaths(_, _, _)
SkipPaths(ty, prefix, i) ==
    IF i > Len(ty.fields) THEN {}
    ELSE (IF ty.fields[i].raw.ignore THEN {}
          ELSE IF ty.fields[i].raw.skip THEN {Append(prefix, ty.fields[i].raw.name)}
          ELSE IF ty.fields[i].type.kind = "slice"
                  /\ ty.fields[i].type.elem.kind = "struct"
          THEN SkipPaths(ty.fields[i].type.elem, Append(prefix, ty.fields[i].raw.name), 1)
          ELSE {})
         \cup SkipPaths(ty, prefix, i + 1)

\* the number of bytes a value takes in the body when fields tagged skip
\* take none: the size on the wire of every scalar, for an array its two
\* size fields, its table of keys and element sizes and its elements
RECURSIVE WireSize(_, _, _)
RECURSIVE WireSizeFields(_, _, _)
RECURSIVE WireSizeElems(_, _, _, _)

WireSize(ty, raw, v) ==
    CASE ty.kind = "string" -> IF raw.fixed > 0 THEN raw.fixed ELSE sizeFieldLen + Len(v)
      [] ty.kind = "bool" -> 1
      [] ty.kind = "int" -> sizeInt64
      [] ty.kind = "float64" -> sizeFloat64
      [] ty.kind = "struct" -> WireSizeFields(ty, v, 1)
      [] ty.kind = "slice" ->
             2 * sizeFieldLen
             + (IF raw.index # <<>>
                THEN Len(v) * (KeySize(ty.elem, raw.index) + sizeFieldLen) ELSE 0)
             + WireSizeElems(ty, raw, v, 1)

WireSizeFields(ty, v, i) ==
    IF i > Len(ty.fields) THEN 0
    ELSE (IF Written(ty.fields[i])
          THEN WireSize(ty.fields[i].type, ty.fields[i].raw, v[i]) ELSE 0)
         + WireSizeFields(ty, v, i + 1)

WireSizeElems(ty, raw, v, i) ==
    IF i > Len(v) THEN 0
    ELSE WireSize(ty.elem, raw, v[i]) + WireSizeElems(ty, raw, v, i + 1)

\* the frame of every record written holds the fields not tagged skip and
\* nothing else
BodiesWithoutSkipped ==
    \A k \in Calls :
        (Succeeded(k) /\ IsStruct(k)) =>
            wLog[k].end - FrameStart(k)
                = sizeFieldLen + WireSize(InputOf(k).ty, EmptyTag, InputOf(k).v)

\* C19 as stated: a field tagged skip has an entry in the index at the head
\* of the stream.
C19_SkippedInIndex ==
    IndexJustRead => \A p \in SkipPaths(First.ty, <<>>, 1) : HasPath(index, p, 1)

\* C19: a field tagged skip has no entry in the index at the head of the
\* stream and no bytes in the record body.
C19_SkippedNowhere ==
    /\ IndexJustRead => \A p \in SkipPaths(First.ty, <<>>, 1) : ~HasPath(index, p, 1)
    /\ BodiesWithoutSkipped

\* the record of the reader tests: the index has list and list.n and no
\* list.d, the body has two elements
C19_Witness ==
    /\ IndexJustRead
    /\ wLog[1].in = 1
    /\ <<nL, nD>> \in SkipPaths(First.ty, <<>>, 1)
    /\ HasPath(index, <<nL, nN>>, 1) /\ ~HasPath(index, <<nL, nD>>, 1)
    /\ wLog[1].end - FrameStart(1)
           = sizeFieldLen + WireSize(S, EmptyTag, Inputs[1].v)

-----------------------------------------------------------------------------
(* The count WriteObject returns *)

RECURSIVE SumReturned(_)
\* the sum of what the first k calls returned
SumReturned(k) == IF k = 0 THEN 0 ELSE wLog[k].n + SumReturned(k - 1)

\* C20: a WriteObject that succeeds returns the number of bytes it appended
\* to the sink, the magic, the size field of the index and the index with
\* the frame on the first call with a struct and the frame alone otherwise;
\* the counts returned by calls that all succeed add up to the length of
\* the sink.
C20_ReturnsBytesAppended ==
    ~opened =>
        /\ \A k \in Calls :
               Succeeded(k) =>
                   /\ wLog[k].n = wLog[k].end - wLog[k].start
                   /\ wLog[k].head =
                          (IF wLog[k].before = 0 /\ IsStruct(k)
                           THEN Len(IndexBlock(k)) ELSE 0)
                   /\ wLog[k].end - FrameStart(k)
                          = Uint32(Slice(FrameStart(k), FrameStart(k) + sizeFieldLen))
        /\ (\A k \in Calls : Succeeded(k)) => SumReturned(Len(wLog)) = Len(sink)

\* two records written, the first with magic and index before its frame
C20_Witness ==
    /\ ~opened
    /\ Len(wLog) = 2 /\ Succeeded(1) /\ Succeeded(2)
    /\ wVersion = Version2 /\ wLog[1].in = 1 /\ wLog[2].in = 2
    /\ wLog[1].head > 7 /\ wLog[2].head = 0
    /\ wLog[1].n + wLog[2].n = Len(sink)

-----------------------------------------------------------------------------
(* Leaving an element *)

\* the offset in the sink of field j of the first record
RECURSIVE FieldStart(_)
FieldStart(j) ==
    IF j = 1 THEN FrameStart(1) + sizeFieldLen
    ELSE FieldStart(j - 1)
         + (IF Written(First.ty.fields[j - 1])
            THEN WireSize(First.ty.fields[j - 1].type, First.ty.fields[j - 1].raw,
                          First.v[j - 1])
            ELSE 0)

\* the offset at which element e of the array in field j ends (e = 0: at
\* which the first element starts)
RECURSIVE ElemEnd(_, _)
ElemEnd(j, e) ==
    IF e = 0
    THEN FieldStart(j) + 2 * sizeFieldLen
         + (IF First.ty.fields[j].raw.index # <<>>
            THEN Len(First.v[j])
                 * (KeySize(First.ty.fields[j].type.elem, First.ty.fields[j].raw.index)
                    + sizeFieldLen)
            ELSE 0)
    ELSE ElemEnd(j, e - 1)
         + WireSize(First.ty.fields[j].type.elem, First.ty.fields[j].raw, First.v[j][e])

\* the end of the element of the array named name in which offset p lies
ElemEndFrom(name, p) ==
    LET j == FieldPos(First.ty, name, 1)
        ends == {ElemEnd(j, e) : e \in 1..Len(First.v[j])}
    IN  CHOOSE x \in {y \in ends : y >= p} : \A y \in ends : y >= p => x <= y

\* the number of the last call that returned without an error, 0 if none
RECURSIVE LastOk(_)
LastOk(k) == IF k = 0 THEN 0 ELSE IF out[k].err = ErrNone THEN k ELSE LastOk(k - 1)

\* the logical position is a field that holds one value and the last call
\* that did anything read that field
FieldConsumed ==
    /\ Len(at) >= 1 /\ at[Len(at)] # Top
    /\ LastOk(Len(out)) > 0
    /\ prog[LastOk(Len(out))].fld = at
    /\ prog[LastOk(Len(out))].op \in
           {"ReadStringField", "ReadFixedStringField", "ReadBoolField", "ReadIntField",
            "ReadFloatField"}

\* the declared total size of the array in field j reaches to the end of
\* its last element
TotalToLastElem(j) ==
    FieldStart(j) + Uint32(Slice(FieldStart(j), FieldStart(j) + sizeFieldLen))
        = ElemEnd(j, Len(First.v[j]))

\* C21: with the logical position on a field of an array element or of the
\* record that has been read, AdvanceToNextElement without names skips the
\* fields of the element that remain and nothing more, and sets the logical
\* position to the parent path followed by Top; after the last element the
\* cursor is the declared total size of the array past its start, and at
\* top level it is at the end of the record frame.
C21_LeavesElement ==
    [][(CallAdvanceToNextElement /\ cons.kind = "nav" /\ call'.path = <<>>
        /\ FieldConsumed) =>
          /\ ret'.err = ErrNone
          /\ at' = Append(SubSeq(at, 1, Len(at) - 1), Top)
          /\ off' = pos'
          /\ Len(at) = 1 => pos' = FrameEnd
          /\ Len(at) = 2 =>
                /\ pos' = ElemEndFrom(at[1], pos)
                /\ TotalToLastElem(FieldPos(First.ty, at[1], 1))]_vars

\* a consumer that knows the fields n and v of the elements has read the
\* last element of a list whose elements hold t after v, and left it
C21_Witness ==
    /\ opened /\ cons.kind = "nav" /\ cons.cs = 1 /\ First.sch = 2
    /\ wLog[1].in = 3
    /\ call.op = "AdvanceToNextElement" /\ call.path = <<>> /\ ret.err = ErrNone
    /\ at = <<nL, Top>>
    /\ pos = ElemEnd(FieldPos(First.ty, nL, 1), 2)
    /\ pos = FieldStart(FieldPos(First.ty, nL, 1))
             + Uint32(Slice(FieldStart(FieldPos(First.ty, nL, 1)),
                            FieldStart(FieldPos(First.ty, nL, 1)) + sizeFieldLen))

-----------------------------------------------------------------------------
(* Seek.  A consumer reads the index and the size of the record, moves to *)
(* a field or to none, seeks and makes one read.                           *)

\* the offsets a consumer seeks to: the starts of the fields of the first
\* record and of the elements of its arrays, the end of the sink and past
\* it, and a negative one
SeekOffsets ==
    {-1, 0, Len(sink), Len(sink) + 2}
    \cup {FieldStart(j) : j \in 1..Len(First.ty.fields)}
    \cup UNION {{ElemEnd(j, e) : e \in 0..Len(First.v[j])} :
                  j \in {i \in 1..Len(First.ty.fields) :
                           First.ty.fields[i].type.kind = "slice"
                           /\ Written(First.ty.fields[i])}}

\* the reads made after a seek to offset k; a size is read only where it is
\* below 2^31
SeekReads(k) ==
    IF k >= 0 /\ (k + sizeFieldLen > Len(sink) \/ sink[k + sizeFieldLen] < 128)
    THEN {"ReadStringField", "ReadSizeField", "ReadBoolField"}
    ELSE {"ReadBoolField"}

SeekProg(op, p, k) ==
    <<Must(Call("ReadIndex", <<>>, 0), "ok"), Call("ReadSizeField", <<>>, 0)>>
    \o (IF p = 0 THEN <<>> ELSE <<Call("AdvanceTo", FirstPaths[p], 0)>>)
    \o <<Call("Seek", <<>>, k), Call(op, <<>>, 0)>>

\* r := NewReader() for a consumer that seeks
OpenSeek ==
    /\ ~opened
    /\ OneSchema
    /\ Len(wLog) = 1
    /\ \E p \in 0..Len(FirstPaths), k \in SeekOffsets : \E op \in SeekReads(k) :
          /\ cons' = Consumer("seek", 0, p, k)
          /\ prog' = SeekProg(op, p, k)
    /\ opened' = TRUE
    /\ UNCHANGED <<wvars, rvars, pvars, pc, call, out>>

\* r.Seek(k, file), the file holding the bytes of the sink
CallSeek ==
    \E c \in NextCalls : c.op = "Seek" /\ Makes(c, Seek(R, sink, c.k))

NextSeek ==
    \/ \E i \in 1..Len(Inputs) : WriteObject(i)
    \/ OpenSeek
    \/ CallReadIndex
    \/ CallAdvanceTo
    \/ CallSeek
    \/ CallReadSizeField
    \/ CallReadStringField
    \/ CallReadBoolField

SpecSeek == Init /\ [][NextSeek]_vars

\* the read that follows a Seek that succeeded
ReadAfterSeek == call.op = "Seek" /\ ret.err = ErrNone /\ ret'.err = ErrNone

\* C22: a Seek that succeeds sets Pos() to the offset and leaves the cached
\* index and the logical position as they were; the read of a scalar that
\* follows returns the bytes at that offset and advances Pos() by their size
\* on the wire.
C22_Seek ==
    [][/\ (CallSeek /\ ret'.err = ErrNone) =>
             /\ pos' = call'.k
             /\ index' = index /\ indexVersion' = indexVersion /\ at' = at
       /\ (CallReadStringField /\ ReadAfterSeek) =>
             /\ Len(ret'.s) = Uint32(Slice(pos, pos + sizeFieldLen))
             /\ ret'.s = Slice(pos + sizeFieldLen, pos + sizeFieldLen + Len(ret'.s))
             /\ pos' = pos + sizeFieldLen + Len(ret'.s)
       /\ (CallReadSizeField /\ ReadAfterSeek) =>
             /\ ret'.n = Uint32(Slice(pos, pos + sizeFieldLen))
             /\ pos' = pos + sizeFieldLen
       /\ (CallReadBoolField /\ ReadAfterSeek) =>
             /\ ret'.b = (sink[pos + 1] = 1)
             /\ pos' = pos + 1]_vars

\* the consumer moved to a field of an element, sought the start of the
\* last element of the list and read the string there
C22_Witness ==
    /\ opened /\ cons.kind = "seek" /\ pc > Len(prog)
    /\ Len(prog) = 5 /\ Len(prog[3].path) = 2
    /\ out[3].err = ErrNone /\ at = prog[3].path
    /\ out[4].err = ErrNone
    /\ \E j \in 1..Len(First.ty.fields) :
          /\ First.ty.fields[j].type.kind = "slice" /\ Written(First.ty.fields[j])
          /\ Len(First.v[j]) >= 2
          /\ prog[4].k = ElemEnd(j, Len(First.v[j]) - 1)
    /\ call.op = "ReadStringField" /\ ret.err = ErrNone /\ Len(ret.s) > 0
    /\ pos = prog[4].k + sizeFieldLen + Len(ret.s)

-----------------------------------------------------------------------------
(* The key of an indexed array *)

\* the kinds a key may have
KeyKinds == {"string", "int"}

\* field j of the record of call k is an array of structs whose index tag
\* names a field of the elements that is neither a string nor an integer
RECURSIVE HasBadKeyFrom(_, _, _)
HasBadKeyFrom(elem, name, i) ==
    IF i > Len(elem.fields) THEN FALSE
    ELSE \/ /\ ~elem.fields[i].raw.ignore
            /\ elem.fields[i].raw.name = name
            /\ elem.fields[i].type.kind \notin KeyKinds
         \/ HasBadKeyFrom(elem, name, i + 1)

BadKeyFields(k) ==
    {j \in 1..Len(InputOf(k).ty.fields) :
        /\ InputOf(k).ty.fields[j].type.kind = "slice"
        /\ InputOf(k).ty.fields[j].type.elem.kind = "struct"
        /\ InputOf(k).ty.fields[j].raw.index # <<>>
        /\ HasBadKeyFrom(InputOf(k).ty.fields[j].type.elem,
                         InputOf(k).ty.fields[j].raw.index, 1)}

RejectsKey(k) == wLog[k].err = ErrInvalidIndexFieldType /\ wLog[k].n = 0

\* C23 as stated: whatever the array holds, WriteObject fails with
\* ErrInvalidIndexFieldType and returns 0 when the index tag of the array
\* names a field of the elements that is neither a string nor an integer.
C23_BadKeyAnyArray ==
    \A k \in 1..Len(wLog) :
        (IsStruct(k) /\ BadKeyFields(k) # {}) => RejectsKey(k)

\* C23: WriteObject fails with ErrInvalidIndexFieldType and returns 0 when
\* the index tag of an array that holds an element names a field of the
\* elements that is neither a string nor an integer.
C23_BadKeyWithElement ==
    \A k \in 1..Len(wLog) :
        (/\ IsStruct(k)
         /\ \E j \in BadKeyFields(k) : Len(InputOf(k).v[j]) > 0) => RejectsKey(k)

\* a list keyed by a bool and holding an element has been refused
C23_Witness ==
    \E k \in 1..Len(wLog) :
        /\ IsStruct(k)
        /\ \E j \in BadKeyFields(k) : Len(InputOf(k).v[j]) > 0
        /\ RejectsKey(k)

-----------------------------------------------------------------------------
(* Moving within one list of fields.  A consumer reads the index and the    *)
(* size of the record, moves to a field p1 (of the record, or of the first  *)
(* element of an array after reading the array's head and its table),       *)
(* reads it and moves to a field p2 of the same list.                       *)

\* the struct type whose fields the path names one of
ListOf(path) ==
    IF Len(path) = 1 THEN First.ty
    ELSE First.ty.fields[FieldPos(First.ty, path[1], 1)].type.elem

\* the values of that struct
ValuesOf(path) ==
    IF Len(path) = 1 THEN First.v
    ELSE First.v[FieldPos(First.ty, path[1], 1)][1]

\* the position in its list of the field the path names
PlaceOf(path) == FieldPos(ListOf(path), path[Len(path)], 1)

\* the bytes on the wire of the fields i..j of the list of the path
RECURSIVE SpanOf(_, _, _)
SpanOf(path, i, j) ==
    IF i > j THEN 0
    ELSE (IF Written(ListOf(path).fields[i])
          THEN WireSize(ListOf(path).fields[i].type, ListOf(path).fields[i].raw,
                        ValuesOf(path)[i])
          ELSE 0)
         + SpanOf(path, i + 1, j)

\* the offsets in the sink at which the field of the path starts and ends
PathStart(path) ==
    (IF Len(path) = 1 THEN FrameStart(1) + sizeFieldLen
     ELSE ElemEnd(FieldPos(First.ty, path[1], 1), 0))
    + SpanOf(path, 1, PlaceOf(path) - 1)

PathEnd(path) == PathStart(path) + SpanOf(path, PlaceOf(path), PlaceOf(path))

SameList(p1, p2) == Len(p1) = Len(p2) /\ (Len(p1) = 2 => p1[1] = p2[1])

PairProg(p1, p2) ==
    <<Must(Call("ReadIndex", <<>>, 0), "ok"), Call("ReadSizeField", <<>>, 0)>>
    \o (IF Len(p1) = 1 THEN <<>>
        ELSE <<Call("AdvanceTo", <<p1[1]>>, 0)>>
             \o HeadCalls(Len(First.v[FieldPos(First.ty, p1[1], 1)]), <<p1[1]>>, 0)
             \o (IF First.ty.fields[FieldPos(First.ty, p1[1], 1)].raw.index # <<>>
                 THEN KeyCalls(ListOf(p1),
                               First.ty.fields[FieldPos(First.ty, p1[1], 1)].raw.index,
                               First.v[FieldPos(First.ty, p1[1], 1)], 1, 0)
                 ELSE <<>>))
    \o <<Call("AdvanceTo", p1, 0), ReadAt(First.ty, p1), Call("AdvanceTo", p2, 0)>>

\* r := NewReader() for a consumer that moves within one list
OpenPair ==
    /\ ~opened
    /\ OneSchema
    /\ Len(wLog) = 1
    /\ \E i, j \in 1..Len(FirstPaths) :
          /\ SameList(FirstPaths[i], FirstPaths[j])
          /\ cons' = Consumer("pair", First.sch, i, j)
          /\ prog' = PairProg(FirstPaths[i], FirstPaths[j])
    /\ opened' = TRUE
    /\ UNCHANGED <<wvars, rvars, pvars, pc, call, out>>

NextPairs ==
    \/ \E i \in 1..Len(Inputs) : WriteObject(i)
    \/ OpenPair
    \/ CallReadIndex
    \/ CallReadSizeField
    \/ CallReadStringField
    \/ CallReadFixedStringField
    \/ CallReadBoolField
    \/ CallReadIntField
    \/ CallReadFloatField
    \/ CallAdvanceTo

SpecPairs == Init /\ [][NextPairs]_vars

\* the consumer has read p1, the logical position is p1 and the cursor is at
\* the end of p1
AtEndOfFirst ==
    /\ opened /\ cons.kind = "pair" /\ pc = Len(prog)
    /\ \A i \in 1..Len(out) : out[i].err = ErrNone
    /\ at = FirstPaths[cons.i1]
    /\ pos = PathEnd(FirstPaths[cons.i1])
    /\ off = pos

\* C24: with the cursor at the end of the field at the logical position,
\* AdvanceTo for a field of the same list consumes the bytes on the wire of
\* the fields declared after the current one and before the target and
\* nothing else, which leaves the cursor on the first byte of the target;
\* for the current field or one declared earlier it consumes nothing and
\* returns nil.
C24_SkipsSiblingsBetween ==
    [][(CallAdvanceTo /\ AtEndOfFirst) =>
          /\ ret'.err = ErrNone
          /\ off' - off = pos' - pos
          /\ pos' - pos = SpanOf(FirstPaths[cons.i1], PlaceOf(FirstPaths[cons.i1]) + 1,
                                 PlaceOf(FirstPaths[cons.i2]) - 1)
          /\ cons.i2 > cons.i1 => pos' = PathStart(FirstPaths[cons.i2])
          /\ cons.i2 <= cons.i1 => pos' = pos]_vars

\* the consumer has moved over fields, one of them an array, to a later
\* field of the record
C24_Witness ==
    /\ opened /\ cons.kind = "pair" /\ pc > Len(prog)
    /\ \A i \in 1..Len(out) : out[i].err = ErrNone
    /\ Len(FirstPaths[cons.i1]) = 1
    /\ cons.i2 > cons.i1
    /\ \E j \in PlaceOf(FirstPaths[cons.i1]) + 1 .. PlaceOf(FirstPaths[cons.i2]) - 1 :
          First.ty.fields[j].type.kind = "slice" /\ Len(First.v[j]) > 0
    /\ at = FirstPaths[cons.i2]
    /\ pos = PathStart(FirstPaths[cons.i2])

\* the consumer has moved from a field of an element to an earlier one
C24_WitnessBack ==
    /\ opened /\ cons.kind = "pair" /\ pc > Len(prog)
    /\ \A i \in 1..Len(out) : out[i].err = ErrNone
    /\ Len(FirstPaths[cons.i1]) = 2
    /\ cons.i2 < cons.i1
    /\ at = FirstPaths[cons.i2]
    /\ pos = PathEnd(FirstPaths[cons.i1])

-----------------------------------------------------------------------------
(* An index that passes its declared end *)

\* the bytes of the entries in the index, as a reader of the version takes
\* them: the name, the type code, for an array (version 2) the flag, the
\* kind and the size of the key if it has one and the kind of the elements,
\* then the count and the subfields; for a string of fixed size its size
RECURSIVE EntriesSize(_, _, _)
EntriesSize(entries, version, i) ==
    IF i > Len(entries) THEN 0
    ELSE 2 * sizeFieldLen + Len(entries[i].FieldName)
         + (IF entries[i].FieldType = FieldTypeArray
            THEN (IF version >= 2
                  THEN 1 + sizeFieldLen
                       + (IF entries[i].Indexed THEN 2 * sizeFieldLen ELSE 0)
                  ELSE 0)
                 + sizeFieldLen + EntriesSize(entries[i].Subfields, version, 1)
            ELSE 0)
         + (IF entries[i].FieldType = FieldTypeFixedStr THEN sizeFieldLen ELSE 0)
         + EntriesSize(entries, version, i + 1)

\* the source holds the version at the reader's offset
MagicAhead == Len(sink) - off >= 3 /\ Slice(off, off + 3) = IndexVersion2

\* the bytes ahead of the entries: the version if there is one, and the size
IndexHeadLen == (IF MagicAhead THEN 3 ELSE 0) + sizeFieldLen

\* the source holds the size of an index at the reader's offset
SizeAhead == Len(sink) - off >= IndexHeadLen

\* the position at which the size ahead says the index ends
IndexEndAhead ==
    pos + IndexHeadLen
    + Uint32(Slice(off + IndexHeadLen - sizeFieldLen, off + IndexHeadLen)) - sizeFieldLen

\* C25: a ReadIndex that takes the cursor past the end the declared size
\* of the index implies returns an error and no index; when it returns an
\* index, the entries of the index are the bytes up to the declared end,
\* none of them reaching past it.
C25_IndexOverrun ==
    [][(CallReadIndex /\ SizeAhead) =>
          /\ pos' > IndexEndAhead => (ret'.err # ErrNone /\ index' = <<>>)
          /\ ret'.err = ErrNone =>
                /\ pos' = IndexEndAhead
                /\ pos + IndexHeadLen + EntriesSize(index', indexVersion', 1)
                       = IndexEndAhead]_vars

\* ReadIndex has taken bytes of a record for an index, read an entry that
\* ends past the size they declare, and reported it
C25_Witness ==
    /\ opened /\ call.op = "ReadIndex" /\ pc > 2
    /\ ret.err = ErrUnexpectedIndexPosition
    /\ index = <<>>
    /\ pos > FrameStart(1)

-----------------------------------------------------------------------------
(* An index with a type code the reader does not know.  A consumer reads   *)
(* the index and the size of the record, sets an index in which one entry  *)
(* of the record has such a code, moves to a field ahead of that entry and *)
(* reads it, or stays at the start, and then moves on.                     *)

\* the paths of the fields of the record that hold one value
TopPaths == {i \in 1..Len(FirstPaths) : Len(FirstPaths[i]) = 1}

\* the number of entries the index of the first record has for the record
TopEntries == SubfieldCount(First.ty, 1)

\* the number of the entry of the index for the field of path number i
EntryOf(i) == SubfieldCount(First.ty, 1) - SubfieldCount(First.ty, PlaceOf(FirstPaths[i]))
              + 1

CodeProg(i, k, last) ==
    <<Must(Call("ReadIndex", <<>>, 0), "ok"), Call("ReadSizeField", <<>>, 0),
      Call("SetIndex", <<>>, k)>>
    \o (IF i = 0 THEN <<>>
        ELSE <<Call("AdvanceTo", FirstPaths[i], 0), ReadAt(First.ty, FirstPaths[i])>>)
    \o <<last>>

\* r := NewReader() for a consumer of an index with a code that is not known
OpenCode ==
    /\ ~opened
    /\ OneSchema
    /\ Len(wLog) = 1
    /\ \E i \in {0} \cup TopPaths, j \in 1..TopEntries, c \in UnknownCodes :
          /\ i # 0 => j > EntryOf(i)
          /\ \E last \in {Call("AdvanceTo", FirstPaths[t], 0) : t \in TopPaths}
                         \cup {Call("AdvanceToNextElement", <<>>, 0) : t \in {i} \ {0}} :
                /\ cons' = Consumer("code", First.sch, i, j)
                /\ prog' = CodeProg(i, 16 * j + c, last)
    /\ opened' = TRUE
    /\ UNCHANGED <<wvars, rvars, pvars, pc, call, out>>

NextCodes ==
    \/ \E i \in 1..Len(Inputs) : WriteObject(i)
    \/ OpenCode
    \/ CallReadIndex
    \/ CallReadSizeField
    \/ CallSetIndex
    \/ CallReadStringField
    \/ CallReadBoolField
    \/ CallReadIntField
    \/ CallReadFloatField
    \/ CallAdvanceTo
    \/ CallAdvanceToNextElement

SpecCodes == Init /\ [][NextCodes]_vars

\* the entry at which the logical position stands, 0 at the start
EntryHere == IF at = <<>> THEN 0 ELSE FindEntry(index, at[1], 1)

\* the consumer's last call has to skip the entry whose code is not known:
\* the entry lies after the logical position and, for AdvanceTo, before the
\* target
HasToSkipUnknown ==
    /\ opened /\ cons.kind = "code" /\ pc = Len(prog)
    /\ \A i \in 1..Len(out) : out[i].err = ErrNone
    /\ index[cons.i2].FieldType \in UnknownCodes
    /\ Len(at) <= 1
    /\ cons.i2 > EntryHere
    /\ prog[pc].op = "AdvanceTo" => cons.i2 < FindEntry(index, prog[pc].path[1], 1)

\* C26: an AdvanceTo or AdvanceToNextElement that has to skip a field for
\* which the index has a type code other than 1, 2, 3, 4, 6 and 7 returns an
\* error and leaves the logical position as it was.
C26_UnknownCode ==
    [][((CallAdvanceTo \/ CallAdvanceToNextElement) /\ HasToSkipUnknown) =>
          /\ ret'.err # ErrNone
          /\ at' = at
          /\ index' = index]_vars

\* AdvanceTo has skipped a field, met the field whose code is not known and
\* failed, the logical position still on the field read before
C26_Witness ==
    /\ opened /\ cons.kind = "code" /\ pc > Len(prog)
    /\ cons.i1 # 0
    /\ call.op = "AdvanceTo"
    /\ ret.err = ErrUnexpectedIndexFieldType
    /\ at = FirstPaths[cons.i1]
    /\ pos > PathEnd(FirstPaths[cons.i1])

\* AdvanceToNextElement has met the field whose code is not known and failed
C26_WitnessNext ==
    /\ opened /\ cons.kind = "code" /\ pc > Len(prog)
    /\ call.op = "AdvanceToNextElement"
    /\ ret.err = ErrUnexpectedIndexFieldType
    /\ at = FirstPaths[cons.i1]

-----------------------------------------------------------------------------
(* Fields reported as missing *)

\* every call before the last one returned without an error
AllButLastOk == \A i \in 1..(Len(out) - 1) : out[i].err = ErrNone

\* C28: after ReadIndex and calls of AdvanceTo, AdvanceToNextElement and
\* reads that all succeeded, AdvanceTo returns ErrNoSuchField only for a path
\* that names no field of the index; a field of the elements of an array
\* asked for from a field of the record that holds one value is not
\* reported as missing.
C28_MissingOnlyIfAbsent ==
    (/\ opened /\ cons.kind = "skip" /\ Len(out) >= 1
     /\ call.op = "AdvanceTo" /\ ret.err = ErrNoSuchField
     /\ AllButLastOk) => ~HasPath(index, call.path, 1)

-----------------------------------------------------------------------------
(* Leaving an element from the start *)

\* C29: AdvanceToNextElement without names returns nil or an error in every
\* state of the reader, the one with an empty logical position after
\* ReadIndex included; it does not end in a run-time panic.
C29_ReturnsNormally ==
    (opened /\ call.op = "AdvanceToNextElement" /\ call.path = <<>>) => ret.err # ErrPanic

-----------------------------------------------------------------------------
(* One index block in the sink *)

\* call k put the version and the index into the sink
WroteIndexBlock(k) ==
    /\ wLog[k].head > 0
    /\ Slice(wLog[k].start, wLog[k].start + wLog[k].head) = IndexBlock(k)

\* call k put a record frame into the sink
WroteFrame(k) == Succeeded(k)

\* C30: whatever calls of WriteObject were made on the writer, failed ones
\* and the ones made again after them included, the sink holds at most one
\* block of version and index, and no record frame comes before it.
C30_AtMostOneIndexBlock ==
    \A j, k \in Calls :
        (j < k /\ WroteIndexBlock(k)) => (~WroteIndexBlock(j) /\ ~WroteFrame(j))

-----------------------------------------------------------------------------
(* Two readers.  The consumer keeps the names of a field in a slice p.  It  *)
(* has a first reader read the index and the size of the record, move to   *)
(* the field of p (of the record, or of the first element of an array),    *)
(* read it and leave the element.  It has a second reader, on a source of  *)
(* its own over the same bytes, read the index and the size, move to the   *)
(* field, passing p itself or a copy of p made at the start, read it and   *)
(* take the index of the first through SetIndex.  The calls on the two     *)
(* readers come in any order; the calls on either stop at its first error. *)

TwoProg(p) ==
    SubSeq(PairProg(p, p), 1, 4) \o <<Call("AdvanceToNextElement", <<>>, 0)>>

\* r := NewReader() for the first reader; cons.i2 = 1 when the second is
\* passed p itself
OpenTwo ==
    /\ ~opened
    /\ OneSchema
    /\ Len(wLog) = 1
    /\ \E i \in 1..Len(FirstPaths), same \in {0, 1} :
          /\ cons' = Consumer("two", First.sch, i, same)
          /\ prog' = TwoProg(FirstPaths[i])
    /\ opened' = TRUE
    /\ UNCHANGED <<wvars, rvars, pvars, pc, call, out>>

\* the names in p: the first reader keeps p once its AdvanceTo has
\* returned, and writes into it when it leaves the element
SliceNames == IF 1 \in alias THEN at ELSE prog[3].path

\* the names the second reader's AdvanceTo is passed
PeerPath == IF cons.i2 = 1 THEN SliceNames ELSE prog[3].path

\* the next call on the second reader
PeerCalls ==
    IF opened /\ cons.kind = "two" /\ peer.err = ErrNone
    THEN (IF peer.pc < Len(prog) THEN {prog[peer.pc]}
          ELSE IF peer.pc = Len(prog) THEN {Call("SetIndex", <<>>, 0)}
          ELSE {})
    ELSE {}

\* the consumer makes the call c on its second reader
PeerMakes(c, r) ==
    /\ peer' = [r EXCEPT !.pc = peer.pc + 1]
    /\ alias' = IF c.op = "AdvanceTo" /\ r.err = ErrNone
                THEN (IF cons.i2 = 1 THEN alias \cup {2} ELSE alias \ {2})
                ELSE alias
    /\ UNCHANGED <<wvars, rvars, cvars>>

PeerReadIndex ==
    \E c \in PeerCalls : c.op = "ReadIndex" /\ PeerMakes(c, ReadIndex(peer, sink))

PeerReadSizeField ==
    \E c \in PeerCalls : c.op = "ReadSizeField" /\ PeerMakes(c, ReadSizeField(peer, sink))

PeerAdvanceTo ==
    \E c \in PeerCalls : c.op = "AdvanceTo" /\ PeerMakes(c, AdvanceTo(peer, sink, PeerPath))

PeerReadStringField ==
    \E c \in PeerCalls :
        c.op = "ReadStringField" /\ PeerMakes(c, ReadStringField(peer, sink))

PeerReadFixedStringField ==
    \E c \in PeerCalls :
        c.op = "ReadFixedStringField"
        /\ PeerMakes(c, ReadFixedStringField(peer, sink, c.k))

PeerReadBoolField ==
    \E c \in PeerCalls : c.op = "ReadBoolField" /\ PeerMakes(c, ReadBoolField(peer, sink))

PeerReadIntField ==
    \E c \in PeerCalls : c.op = "ReadIntField" /\ PeerMakes(c, ReadIntField(peer, sink))

PeerReadFloatField ==
    \E c \in PeerCalls : c.op = "ReadFloatField" /\ PeerMakes(c, ReadFloatField(peer, sink))

\* r2.SetIndex(ix), ix the index the first reader holds
PeerSetIndex ==
    \E c \in PeerCalls : c.op = "SetIndex" /\ PeerMakes(c, SetIndex(peer, index))

NextTwo ==
    \/ \E i \in 1..Len(Inputs) : WriteObject(i)
    \/ OpenTwo
    \/ CallReadIndex
    \/ CallReadSizeField
    \/ CallReadStringField
    \/ CallReadFixedStringField
    \/ CallReadBoolField
    \/ CallReadIntField
    \/ CallReadFloatField
    \/ CallAdvanceTo
    \/ CallAdvanceToNextElement
    \/ PeerReadIndex
    \/ PeerReadSizeField
    \/ PeerAdvanceTo
    \/ PeerReadStringField
    \/ PeerReadFixedStringField
    \/ PeerReadBoolField
    \/ PeerReadIntField
    \/ PeerReadFloatField
    \/ PeerSetIndex

SpecTwo == Init /\ [][NextTwo]_vars

\* what a reader shows of itself: Pos(), the logical position, the index
View(r) == [pos |-> r.pos, at |-> r.at, index |-> r.index]

\* C27: once the index is read, a call on a reader other than ReadIndex and
\* SetIndex leaves the reader's index as it is, and no call on a reader
\* changes Pos(), the logical position or the index of another reader.
C27_ReadersShareNothing ==
    [][/\ (opened /\ pc' = pc + 1) =>
             /\ call'.op \notin {"ReadIndex", "SetIndex"} => index' = index
             /\ View(peer') = View(peer)
       /\ (opened /\ peer'.pc = peer.pc + 1) =>
             /\ (\A c \in PeerCalls : c.op \notin {"ReadIndex", "SetIndex"})
                    => peer'.index = peer.index
             /\ View(R') = View(R)]_vars

====
